---- MODULE Spec2Model ----
(***************************************************************************)
(* Call-lifecycle cost/usage tracking of the voice-agent orchestrator:     *)
(* UnifiedCostTracker (orchestrates/unified_cost_tracker.py), the          *)
(* VocodeUsageHook that feeds it live usage, and the call registration of  *)
(* orchestrates/main.py.                                                   *)
(*                                                                         *)
(* Units.  Python floats are modelled as exact integers:                   *)
(*   - durations are milliseconds (1234 is 1.234 s);                       *)
(*   - money is counted in units of 1/600000000 dollar, the largest unit   *)
(*     in which every rate of the pricing table is a whole number per      *)
(*     millisecond, per character or per token                             *)
(*     (0.0036 $/min = 36 units/ms, 0.000018 $/char = 10800 units/char,    *)
(*      0.00000015 $/token = 90 units/token, 0.014 $/min = 140 units/ms).  *)
(* Text is a sequence of one-character strings.                            *)
(***************************************************************************)
EXTENDS Integers, Sequences, FiniteSets, TLC

\* ------------------------------------------------------------------ bounds
\* Usage-tracking requests recorded over all registered calls.
MaxOps == 3

\* Calls registered at the same time.
MaxCalls == 1

\* ------------------------------------------------------------- input sets
CallIds == {"c1", "c2"}

None == "None"

\* The text-to-speech provider_name and model_id of a call request: a listed
\* provider and model, the same in another spelling, and a provider that is
\* not in the rate table, without a model.
TtsConfigs ==
  { <<"eleven_labs", "eleven_flash_v2">>,
    <<"ElevenLabs", "Multilingual_V2">>,
    <<"azure", None>> }

\* str.lower() on the identifiers that occur in the model.
Lower(s) ==
  CASE s = "ElevenLabs" -> "elevenlabs"
    [] s = "Multilingual_V2" -> "multilingual_v2"
    [] s = "Eleven_Flash_V2" -> "eleven_flash_v2"
    [] s = "Deepgram" -> "deepgram"
    [] s = "Enhanced" -> "enhanced"
    [] s = "OpenAI" -> "openai"
    [] s = "GPT-4o" -> "gpt-4o"
    [] OTHER -> s

\* ------------------------------------------------------------ rate tables
\* self.pricing_rates, per millisecond / character / token, in money units.
pricing_rates ==
  [ deepgram |-> ("nova-2" :> 36) @@ ("enhanced" :> 115) @@ ("base" :> 95)
                 @@ ("whisper" :> 48) @@ ("default" :> 36),
    rime |-> ("mist" :> 9600) @@ ("arcana" :> 12000) @@ ("default" :> 9600),
    elevenlabs |-> ("turbo_v2" :> 10800) @@ ("multilingual_v2" :> 18000)
                   @@ ("eleven_multilingual_v2" :> 18000) @@ ("eleven_flash_v2" :> 10800)
                   @@ ("eleven_turbo_v2" :> 10800) @@ ("default" :> 10800),
    eleven_labs |-> ("turbo_v2" :> 10800) @@ ("multilingual_v2" :> 18000)
                    @@ ("eleven_multilingual_v2" :> 18000) @@ ("eleven_flash_v2" :> 10800)
                    @@ ("eleven_turbo_v2" :> 10800) @@ ("default" :> 10800),
    streamelements |-> ("default" :> 0),
    stream_elements |-> ("default" :> 0),
    twilio |-> ("outbound_local" :> 140) @@ ("outbound_tollfree" :> 140)
               @@ ("outbound_default" :> 140) @@ ("browser_app" :> 40)
               @@ ("recording" :> 25),
    openai |-> ("gpt-4" :> [input |-> 3000, output |-> 12000])
               @@ ("gpt-4o" :> [input |-> 3000, output |-> 12000])
               @@ ("gpt-4o-mini" :> [input |-> 90, output |-> 360])
               @@ ("gpt-4.1-nano" :> [input |-> 60, output |-> 240])
               @@ ("gpt-4-turbo" :> [input |-> 6000, output |-> 18000])
               @@ ("gpt-3.5-turbo" :> [input |-> 300, output |-> 900]) ]

\* provider_rates.get(actual_model.lower(), provider_rates.get("default", 0)),
\* 0 when the provider is not in the table.
ServiceRate(provider, actual_model) ==
  IF provider \in DOMAIN pricing_rates
  THEN LET provider_rates == pricing_rates[provider]
       IN IF Lower(actual_model) \in DOMAIN provider_rates
          THEN provider_rates[Lower(actual_model)]
          ELSE IF "default" \in DOMAIN provider_rates
               THEN provider_rates["default"] ELSE 0
  ELSE 0

\* The nested provider -> model -> {input, output} lookup of add_llm_usage;
\* the model name is looked up as given (it is not lower-cased).
\* Variant: a model that is not listed is free of charge.
LLMRates_unlisted_free(provider, actual_model) ==
  IF provider \in DOMAIN pricing_rates /\ actual_model \in DOMAIN pricing_rates[provider]
  THEN pricing_rates[provider][actual_model]
  ELSE [input |-> 0, output |-> 0]

LLMRates(provider, actual_model) ==
  IF provider \in DOMAIN pricing_rates
  THEN LET provider_rates == pricing_rates[provider]
       IN IF actual_model \in DOMAIN provider_rates
          THEN provider_rates[actual_model]
          ELSE IF "gpt-4o-mini" \in DOMAIN provider_rates
               THEN provider_rates["gpt-4o-mini"]
               ELSE [input |-> 0, output |-> 0]
  ELSE [input |-> 0, output |-> 0]

\* `model or stored or fallback`: the first of the three that is set.
OrElse(model, stored, fallback) ==
  IF model # None /\ model # "" THEN model
  ELSE IF stored # None /\ stored # "" THEN stored ELSE fallback

\* round(duration_seconds, 2) on a duration in milliseconds: the nearest
\* multiple of 10 ms (a tie goes to the even hundredth).
Round2(ms) ==
  LET q == ms \div 10
      r == ms % 10
  IN IF r < 5 THEN q * 10
     ELSE IF r > 5 THEN (q + 1) * 10
     ELSE IF q % 2 = 0 THEN q * 10 ELSE (q + 1) * 10

\* round(cost, 6) on an amount of money: the nearest multiple of 0.000001 $,
\* which is 600 money units (a tie goes to the even millionth).
Round6(units) ==
  LET q == units \div 600
      r == units % 600
  IN IF r < 300 THEN q * 600
     ELSE IF r > 300 THEN (q + 1) * 600
     ELSE IF q % 2 = 0 THEN q * 600 ELSE (q + 1) * 600

\* The characters of the context tags that occur in the model.
Spell(s) ==
  CASE s = "speech_to_text" ->
         <<"s", "p", "e", "e", "c", "h", "_", "t", "o", "_", "t", "e", "x", "t">>
    [] s = "live_transcription" ->
         <<"l", "i", "v", "e", "_", "t", "r", "a", "n", "s", "c", "r", "i", "p", "t", "i", "o", "n">>
    [] s = "speech_recognition_from_transcript" ->
         <<"s", "p", "e", "e", "c", "h", "_", "r", "e", "c", "o", "g", "n", "i", "t", "i", "o", "n", "_", "f", "r", "o", "m", "_", "t", "r", "a", "n", "s", "c", "r", "i", "p", "t">>
    [] s = "text_to_speech" ->
         <<"t", "e", "x", "t", "_", "t", "o", "_", "s", "p", "e", "e", "c", "h">>
    [] s = "live_synthesis" ->
         <<"l", "i", "v", "e", "_", "s", "y", "n", "t", "h", "e", "s", "i", "s">>
    [] s = "agent_responses_from_transcript" ->
         <<"a", "g", "e", "n", "t", "_", "r", "e", "s", "p", "o", "n", "s", "e", "s", "_", "f", "r", "o", "m", "_", "t", "r", "a", "n", "s", "c", "r", "i", "p", "t">>
    [] s = "agent_response" ->
         <<"a", "g", "e", "n", "t", "_", "r", "e", "s", "p", "o", "n", "s", "e">>
    [] s = "live_agent_response" ->
         <<"l", "i", "v", "e", "_", "a", "g", "e", "n", "t", "_", "r", "e", "s", "p", "o", "n", "s", "e">>
    [] s = "agent_conversation" ->
         <<"a", "g", "e", "n", "t", "_", "c", "o", "n", "v", "e", "r", "s", "a", "t", "i", "o", "n">>
    [] s = "tag_evaluation" ->
         <<"t", "a", "g", "_", "e", "v", "a", "l", "u", "a", "t", "i", "o", "n">>
    [] OTHER -> <<>>

\* needle in haystack, both sequences of characters (Python's substring test).
Contains(haystack, needle) ==
  \E i \in 0..(Len(haystack) - Len(needle)) :
    \A j \in 1..Len(needle) : haystack[i + j] = needle[j]

\* "transcript" in detail.get("context", "")
HasTranscript(context) == Contains(Spell(context), <<"t", "r", "a", "n", "s", "c", "r", "i", "p", "t">>)

\* ----------------------------------------------------------- data classes
ServiceUsage(provider, model) ==
  [provider |-> provider, model |-> model, total_usage |-> 0, usage_count |-> 0,
   usage_details |-> <<>>]

LLMUsage(provider, model) ==
  [provider |-> provider, model |-> model, input_tokens |-> 0, output_tokens |-> 0,
   total_tokens |-> 0, requests_count |-> 0, usage_contexts |-> <<>>]

CostBreakdown(tp, sp, lp) ==
  [transcription_cost |-> 0, synthesis_cost |-> 0, llm_cost |-> 0, telephony_cost |-> 0,
   total_cost |-> 0, transcription_seconds |-> 0, synthesis_characters |-> 0,
   llm_input_tokens |-> 0, llm_output_tokens |-> 0, call_duration_seconds |-> 0,
   transcription_provider |-> tp, synthesis_provider |-> sp, llm_provider |-> lp]

\* CostBreakdown.to_dict
CostBreakdown_to_dict(self) ==
  [cost_breakdown |->
     [transcription_cost |-> Round6(self.transcription_cost),
      synthesis_cost |-> Round6(self.synthesis_cost),
      llm_cost |-> Round6(self.llm_cost),
      telephony_cost |-> Round6(self.telephony_cost),
      total_cost |-> Round6(self.total_cost)],
   usage_metrics |->
     [transcription_seconds |-> Round2(self.transcription_seconds),
      synthesis_characters |-> self.synthesis_characters,
      llm_input_tokens |-> self.llm_input_tokens,
      llm_output_tokens |-> self.llm_output_tokens,
      call_duration_seconds |-> Round2(self.call_duration_seconds)],
   providers |->
     [transcription_provider |-> self.transcription_provider,
      synthesis_provider |-> self.synthesis_provider,
      llm_provider |-> self.llm_provider]]

CallMetrics(call_id, start_time) ==
  [call_id |-> call_id, start_time |-> start_time,
   transcription |-> ServiceUsage("", ""), synthesis |-> ServiceUsage("", ""),
   llm |-> LLMUsage("", ""), call_duration_seconds |-> 0,
   transcript_characters |-> 0, transcript_words |-> 0]

\* dict[key] = value and dict.pop(key, None)
Put(dict, key, value) == [k \in DOMAIN dict \cup {key} |-> IF k = key THEN value ELSE dict[k]]

Pop(dict, key) == [k \in DOMAIN dict \ {key} |-> dict[k]]

\* ------------------------------------------------------ UnifiedCostTracker
\* A tracker value t holds the three maps of the tracker, keyed by call id,
\* and for every call id the usage-tracking requests made since its registration:
\*   t.call_metrics, t.call_costs, t.call_start_times, t.history.
\* A request for a call id that is not registered is not recorded.

\* One usage-tracking request as the tracker received it.
Request(service, amount, context) ==
  [service |-> service, amount |-> amount, context |-> context]

Logged(t, call_id, request) ==
  [t EXCEPT !.history = [@ EXCEPT ![call_id] = Append(@, request)]]

start_call_tracking(t, call_id, transcription_provider, transcription_model, synthesis_provider, synthesis_model, llm_provider, llm_model, time) ==
  LET metrics == [CallMetrics(call_id, time) EXCEPT
                    !.transcription = ServiceUsage(transcription_provider,
                                                   transcription_model),
                    !.synthesis = ServiceUsage(synthesis_provider, synthesis_model),
                    !.llm = LLMUsage(llm_provider, llm_model)]
  IN [call_metrics |-> Put(t.call_metrics, call_id, metrics),
      call_costs |-> Put(t.call_costs, call_id,
                         CostBreakdown(transcription_provider, synthesis_provider,
                                       llm_provider)),
      call_start_times |-> Put(t.call_start_times, call_id, time),
      history |-> [t.history EXCEPT ![call_id] = <<>>]]

\* Variant: the telephony cost is left out of the total.
_update_total_cost_no_telephony(call_costs, call_id) ==
  IF call_id \notin DOMAIN call_costs THEN call_costs
  ELSE [call_costs EXCEPT ![call_id].total_cost =
          call_costs[call_id].transcription_cost + call_costs[call_id].synthesis_cost
          + call_costs[call_id].llm_cost]

_update_total_cost(call_costs, call_id) ==
  IF call_id \notin DOMAIN call_costs THEN call_costs
  ELSE [call_costs EXCEPT ![call_id].total_cost =
          call_costs[call_id].transcription_cost + call_costs[call_id].synthesis_cost
          + call_costs[call_id].llm_cost + call_costs[call_id].telephony_cost]

\* ---- add_transcription_usage
\* The estimate is skipped: usage has been recorded for the service already.
\* Variant: the estimate is skipped only from the second recorded event on.
skips_transcription_estimate_late(transcription, context) ==
  context = "speech_recognition_from_transcript" /\ transcription.usage_count > 1

skips_transcription_estimate(transcription, context) ==
  context = "speech_recognition_from_transcript" /\ transcription.usage_count > 0

\* The accumulators a live report starts from: reset when a recorded event
\* has "transcript" in its context.
\* Variant: the reset forgets usage_count.
transcription_after_switch_stale_count(transcription, context) ==
  IF context = "live_transcription"
     /\ \E i \in DOMAIN transcription.usage_details :
          HasTranscript(transcription.usage_details[i].context)
  THEN [transcription EXCEPT !.total_usage = 0, !.usage_details = <<>>]
  ELSE transcription

transcription_after_switch(transcription, context) ==
  IF context = "live_transcription"
     /\ \E i \in DOMAIN transcription.usage_details :
          HasTranscript(transcription.usage_details[i].context)
  THEN [transcription EXCEPT !.total_usage = 0, !.usage_count = 0, !.usage_details = <<>>]
  ELSE transcription

record_transcription(transcription, duration_seconds, context) ==
  [transcription EXCEPT
     !.total_usage = @ + duration_seconds,
     !.usage_count = @ + 1,
     !.usage_details = Append(@, [amount |-> Round2(duration_seconds),
                                  context |-> context])]

add_transcription_usage(t, call_id, duration_seconds, model, context) ==
  IF call_id \notin DOMAIN t.call_metrics THEN t
  ELSE
    LET metrics == t.call_metrics[call_id]
        t0 == Logged(t, call_id, Request("transcription", duration_seconds, context))
    IN IF skips_transcription_estimate(metrics.transcription, context) THEN t0
       ELSE
         LET updated == record_transcription(
                          transcription_after_switch(metrics.transcription, context),
                          duration_seconds, context)
             t1 == [t0 EXCEPT !.call_metrics[call_id].transcription = updated]
         IN IF call_id \notin DOMAIN t.call_costs THEN t1
            ELSE
              LET cost_breakdown == t.call_costs[call_id]
                  provider == Lower(cost_breakdown.transcription_provider)
                  actual_model == OrElse(model, metrics.transcription.model, "default")
                  rate == ServiceRate(provider, actual_model)
                  cost == duration_seconds * rate
                  added == [cost_breakdown EXCEPT
                              !.transcription_seconds = @ + duration_seconds,
                              !.transcription_cost = @ + cost]
              IN [t1 EXCEPT !.call_costs =
                    _update_total_cost([t.call_costs EXCEPT ![call_id] = added], call_id)]

\* ---- add_synthesis_usage
\* Variant: the live report is added on top of the estimate.
synthesis_after_switch_keeping(synthesis, context) == synthesis

synthesis_after_switch(synthesis, context) ==
  IF context = "live_synthesis"
     /\ \E i \in DOMAIN synthesis.usage_details :
          HasTranscript(synthesis.usage_details[i].context)
  THEN [synthesis EXCEPT !.total_usage = 0, !.usage_count = 0, !.usage_details = <<>>]
  ELSE synthesis

record_synthesis(synthesis, character_count, context) ==
  [synthesis EXCEPT
     !.total_usage = @ + character_count,
     !.usage_count = @ + 1,
     !.usage_details = Append(@, [amount |-> character_count, context |-> context])]

add_synthesis_usage(t, call_id, character_count, model, context) ==
  IF call_id \notin DOMAIN t.call_metrics THEN t
  ELSE
    LET metrics == t.call_metrics[call_id]
        t0 == Logged(t, call_id, Request("synthesis", character_count, context))
    IN IF context = "agent_responses_from_transcript" /\ metrics.synthesis.usage_count > 0
       THEN t0
       ELSE
         LET updated == record_synthesis(
                          synthesis_after_switch(metrics.synthesis, context),
                          character_count, context)
             t1 == [t0 EXCEPT !.call_metrics[call_id].synthesis = updated]
         IN IF call_id \notin DOMAIN t.call_costs THEN t1
            ELSE
              LET cost_breakdown == t.call_costs[call_id]
                  provider == Lower(cost_breakdown.synthesis_provider)
                  actual_model == OrElse(model, metrics.synthesis.model, "default")
                  rate == ServiceRate(provider, actual_model)
                  cost == character_count * rate
                  added == [cost_breakdown EXCEPT
                              !.synthesis_characters = @ + character_count,
                              !.synthesis_cost = @ + cost]
              IN [t1 EXCEPT !.call_costs =
                    _update_total_cost([t.call_costs EXCEPT ![call_id] = added], call_id)]

\* ---- add_llm_usage
\* An entry of usage_contexts, f"{context}:{input_tokens}/{output_tokens}", is
\* kept as the record of its three parts.
\* Variant: total_tokens counts the input tokens only.
record_llm_input_only(llm, input_tokens, output_tokens, context) ==
  [llm EXCEPT
     !.input_tokens = @ + input_tokens,
     !.output_tokens = @ + output_tokens,
     !.total_tokens = @ + input_tokens,
     !.requests_count = @ + 1,
     !.usage_contexts = Append(@, [context |-> context, input_tokens |-> input_tokens,
                                   output_tokens |-> output_tokens])]

record_llm(llm, input_tokens, output_tokens, context) ==
  [llm EXCEPT
     !.input_tokens = @ + input_tokens,
     !.output_tokens = @ + output_tokens,
     !.total_tokens = @ + (input_tokens + output_tokens),
     !.requests_count = @ + 1,
     !.usage_contexts = Append(@, [context |-> context, input_tokens |-> input_tokens,
                                   output_tokens |-> output_tokens])]

add_llm_usage(t, call_id, input_tokens, output_tokens, model, context) ==
  IF call_id \notin DOMAIN t.call_metrics THEN t
  ELSE
    LET metrics == t.call_metrics[call_id]
        t0 == Logged(t, call_id, Request("llm", input_tokens + output_tokens, context))
    IN IF /\ context = "agent_conversation"
          /\ \E i \in DOMAIN metrics.llm.usage_contexts :
               Contains(Spell(metrics.llm.usage_contexts[i].context),
                        Spell("live_agent_response"))
       THEN t0
       ELSE
         LET updated == record_llm(metrics.llm, input_tokens, output_tokens, context)
             t1 == [t0 EXCEPT !.call_metrics[call_id].llm = updated]
         IN IF call_id \notin DOMAIN t.call_costs THEN t1
            ELSE
              LET cost_breakdown == t.call_costs[call_id]
                  provider == Lower(cost_breakdown.llm_provider)
                  actual_model == OrElse(model, metrics.llm.model, "gpt-4o-mini")
                  rates == LLMRates(provider, actual_model)
                  total_llm_cost == input_tokens * rates.input + output_tokens * rates.output
                  added == [cost_breakdown EXCEPT
                              !.llm_input_tokens = @ + input_tokens,
                              !.llm_output_tokens = @ + output_tokens,
                              !.llm_cost = @ + total_llm_cost]
              IN [t1 EXCEPT !.call_costs =
                    _update_total_cost([t.call_costs EXCEPT ![call_id] = added], call_id)]

\* real_cost_data is a record; the absent record (None) has data_source "none".
add_telephony_cost(t, call_id, call_duration_seconds, call_type, recording_enabled, real_cost_data) ==
  IF call_id \notin DOMAIN t.call_costs THEN t
  ELSE
    LET twilio_rates == pricing_rates["twilio"]
        total_telephony_cost ==
          IF real_cost_data.data_source = "twilio_api"
          THEN LET actual_cost == real_cost_data.cost_usd
                   \* duration_minutes * recording rate per minute
                   recording_cost == IF recording_enabled
                                     THEN real_cost_data.duration_minutes * 60000
                                          * twilio_rates["recording"]
                                     ELSE 0
               IN actual_cost + recording_cost
          ELSE LET call_rate == IF call_type \in DOMAIN twilio_rates
                                THEN twilio_rates[call_type]
                                ELSE twilio_rates["outbound_default"]
                   call_cost == call_duration_seconds * call_rate
                   recording_cost == IF recording_enabled
                                     THEN call_duration_seconds * twilio_rates["recording"]
                                     ELSE 0
               IN call_cost + recording_cost
        set == [t.call_costs[call_id] EXCEPT
                  !.call_duration_seconds = call_duration_seconds,
                  !.telephony_cost = total_telephony_cost]
        t0 == Logged(t, call_id, Request("telephony", call_duration_seconds, call_type))
    IN [t0 EXCEPT !.call_costs =
          _update_total_cost([t.call_costs EXCEPT ![call_id] = set], call_id)]

\* ------------------------------------------------------------------- text
Whitespace == {" ", "\n", "\t"}

\* len(text.split()): the number of maximal runs of non-whitespace characters.
WordCount(text) ==
  Cardinality({i \in DOMAIN text :
                 text[i] \notin Whitespace /\ (i = 1 \/ text[i - 1] \in Whitespace)})

\* text.split('\n')
RECURSIVE SplitLines(_)
SplitLines(text) ==
  IF \A i \in DOMAIN text : text[i] # "\n" THEN <<text>>
  ELSE LET n == CHOOSE i \in DOMAIN text :
                  text[i] = "\n" /\ \A j \in 1..(i - 1) : text[j] # "\n"
       IN <<SubSeq(text, 1, n - 1)>> \o SplitLines(SubSeq(text, n + 1, Len(text)))

\* line.startswith(prefix)
StartsWith(line, prefix) ==
  Len(line) >= Len(prefix) /\ SubSeq(line, 1, Len(prefix)) = prefix

\* s.strip()
Strip(s) ==
  LET kept == {i \in DOMAIN s : s[i] \notin Whitespace}
  IN IF kept = {} THEN <<>>
     ELSE SubSeq(s, CHOOSE i \in kept : \A j \in kept : i <= j,
                    CHOOSE i \in kept : \A j \in kept : i >= j)

\* ' '.join(parts)
RECURSIVE JoinSpace(_)
JoinSpace(parts) ==
  IF parts = <<>> THEN <<>>
  ELSE IF Len(parts) = 1 THEN parts[1]
  ELSE parts[1] \o <<" ">> \o JoinSpace(Tail(parts))

\* Variant: the "BOT:" prefix of a line is counted with its text.
BotText_keeping_prefix(transcript_text) ==
  LET lines == SplitLines(transcript_text)
      bot_lines == SelectSeq(lines, LAMBDA line : StartsWith(line, <<"B", "O", "T", ":">>))
  IN JoinSpace([i \in DOMAIN bot_lines |-> Strip(bot_lines[i])])

\* ' '.join(line[4:].strip() for line in text.split('\n') if line.startswith('BOT:'))
BotText(transcript_text) ==
  LET lines == SplitLines(transcript_text)
      bot_lines == SelectSeq(lines, LAMBDA line : StartsWith(line, <<"B", "O", "T", ":">>))
  IN JoinSpace([i \in DOMAIN bot_lines |->
                  Strip(SubSeq(bot_lines[i], 5, Len(bot_lines[i])))])

\* End-of-call transcripts:
\*   "BOT: hi\nHUMAN: ok", "BOT: a \nBOT:b" and "HUMAN: no".
Transcripts ==
  { <<"B", "O", "T", ":", " ", "h", "i", "\n", "H", "U", "M", "A", "N", ":", " ", "o", "k">>,
    <<"B", "O", "T", ":", " ", "a", " ", "\n", "B", "O", "T", ":", "b">>,
    <<"H", "U", "M", "A", "N", ":", " ", "n", "o">> }

\* "BOT: hi\nHUMAN: ok"
FullTranscript == CHOOSE tr \in Transcripts : Len(tr) = 17

\* Variant: metrics are created on demand for a call id that is not registered.
update_call_metadata_creating(t, call_id, duration_seconds, transcript_text) ==
  LET metrics == IF call_id \in DOMAIN t.call_metrics THEN t.call_metrics[call_id]
                 ELSE CallMetrics(call_id, 0)
  IN [t EXCEPT !.call_metrics =
        Put(@, call_id,
            [metrics EXCEPT !.call_duration_seconds = duration_seconds,
                            !.transcript_characters = Len(transcript_text),
                            !.transcript_words = IF transcript_text # <<>>
                                                 THEN WordCount(transcript_text) ELSE 0])]

update_call_metadata(t, call_id, duration_seconds, transcript_text) ==
  IF call_id \notin DOMAIN t.call_metrics THEN t
  ELSE [Logged(t, call_id, Request("metadata", duration_seconds, "")) EXCEPT
          !.call_metrics[call_id] =
          [@ EXCEPT !.call_duration_seconds = duration_seconds,
                    !.transcript_characters = Len(transcript_text),
                    !.transcript_words = IF transcript_text # <<>>
                                         THEN WordCount(transcript_text) ELSE 0]]

\* Variant: half of the call is taken to be speech to transcribe.
estimate_usage_from_transcript_halved(t, call_id, transcript_text, call_duration_seconds) ==
  IF call_id \notin DOMAIN t.call_metrics THEN t
  ELSE
    LET t1 == IF t.call_metrics[call_id].transcription.usage_count = 0
              THEN add_transcription_usage(t, call_id, call_duration_seconds \div 2, None,
                                           "speech_recognition_from_transcript")
              ELSE t
        bot_character_count == Len(BotText(transcript_text))
    IN IF t1.call_metrics[call_id].synthesis.usage_count = 0 /\ bot_character_count > 0
       THEN add_synthesis_usage(t1, call_id, bot_character_count, None,
                                "agent_responses_from_transcript")
       ELSE t1

estimate_usage_from_transcript(t, call_id, transcript_text, call_duration_seconds) ==
  IF call_id \notin DOMAIN t.call_metrics THEN t
  ELSE
    \* metrics is the object the two tests read: the second test sees what
    \* the first add_transcription_usage left in it
    LET t1 == IF t.call_metrics[call_id].transcription.usage_count = 0
              THEN add_transcription_usage(t, call_id, call_duration_seconds, None,
                                           "speech_recognition_from_transcript")
              ELSE t
        bot_character_count == Len(BotText(transcript_text))
    IN IF t1.call_metrics[call_id].synthesis.usage_count = 0 /\ bot_character_count > 0
       THEN add_synthesis_usage(t1, call_id, bot_character_count, None,
                                "agent_responses_from_transcript")
       ELSE t1

\* ---- get_comprehensive_cost_breakdown
\* The rate tables of the _calculate_*_cost methods, per millisecond, per
\* character and per token, in money units
\* (0.0043 $/min = 43 units/ms, 0.0001 $ per 1000 characters = 60 units/char,
\*  0.15 $ per million tokens = 90 units/token).
llm_rates ==
  [ openai |-> ("gpt-4o-mini" :> [input |-> 90, output |-> 360])
               @@ ("gpt-4o" :> [input |-> 1500, output |-> 6000])
               @@ ("gpt-4" :> [input |-> 18000, output |-> 36000]) ]

\* rates.get(provider, rates["default"]).get(model, rates["default"]["default"])
DefaultedRate(rates, provider, model) ==
  LET provider_rates == IF provider \in DOMAIN rates THEN rates[provider]
                        ELSE rates["default"]
  IN IF model \in DOMAIN provider_rates THEN provider_rates[model]
     ELSE rates["default"]["default"]

\* `x.model.lower() if x.model else fallback`
ModelOr(model, fallback) == IF model # None /\ model # "" THEN Lower(model) ELSE fallback

_calculate_transcription_cost(metrics) ==
  IF metrics.transcription.total_usage <= 0 THEN 0
  ELSE metrics.transcription.total_usage
       * DefaultedRate([deepgram |-> ("nova-2" :> 43) @@ ("nova" :> 43) @@ ("default" :> 43),
                        default |-> ("default" :> 50)],
                       Lower(metrics.transcription.provider),
                       ModelOr(metrics.transcription.model, "default"))

_calculate_synthesis_cost(metrics) ==
  IF metrics.synthesis.total_usage <= 0 THEN 0
  ELSE metrics.synthesis.total_usage
       * DefaultedRate([eleven_labs |-> ("eleven_flash_v2" :> 60)
                                         @@ ("eleven_multilingual_v2" :> 144)
                                         @@ ("default" :> 60),
                        rime |-> ("default" :> 60),
                        default |-> ("default" :> 90)],
                       Lower(metrics.synthesis.provider),
                       ModelOr(metrics.synthesis.model, "default"))

_calculate_llm_cost(metrics) ==
  IF metrics.llm.total_tokens <= 0 THEN 0
  ELSE LET provider == Lower(metrics.llm.provider)
           model == ModelOr(metrics.llm.model, "gpt-4o-mini")
           model_rates == IF provider \in DOMAIN llm_rates /\ model \in DOMAIN llm_rates[provider]
                          THEN llm_rates[provider][model]
                          ELSE llm_rates["openai"]["gpt-4o-mini"]
       IN metrics.llm.input_tokens * model_rates.input
          + metrics.llm.output_tokens * model_rates.output

\* The "cost_breakdown" part of the result; None for a call without tracking data.
get_comprehensive_cost_breakdown(t, call_id) ==
  IF call_id \notin DOMAIN t.call_metrics \/ call_id \notin DOMAIN t.call_costs THEN None
  ELSE LET metrics == t.call_metrics[call_id]
           transcription_cost == _calculate_transcription_cost(metrics)
           synthesis_cost == _calculate_synthesis_cost(metrics)
           llm_cost == _calculate_llm_cost(metrics)
       IN [transcription_cost_usd |-> Round6(transcription_cost),
           synthesis_cost_usd |-> Round6(synthesis_cost),
           llm_cost_usd |-> Round6(llm_cost),
           total_ai_services_cost_usd |->
             Round6(transcription_cost + synthesis_cost + llm_cost)]

\* ---- finalize_call_cost
\* The tracker after the call and the dictionary it returns; time is the
\* reading of time.time() and of datetime.utcnow() of the call, and the
\* optional call_duration_seconds is <<>> (None) or <<duration>>.
\* Variant: the duration is added to the duration on record.
finalize_call_cost_accumulating(t, call_id, call_duration_seconds, time) ==
  IF call_id \notin DOMAIN t.call_costs THEN [tracker |-> t, result |-> <<>>]
  ELSE
    LET duration == IF call_duration_seconds = <<>> /\ call_id \in DOMAIN t.call_start_times
                    THEN <<time - t.call_start_times[call_id]>>
                    ELSE call_duration_seconds
        t1 == IF duration # <<>>
              THEN [t EXCEPT !.call_costs[call_id].call_duration_seconds = @ + duration[1]]
              ELSE t
    IN [tracker |-> t1,
        result |-> CostBreakdown_to_dict(t1.call_costs[call_id]) @@
                   [call_metadata |->
                      [call_id |-> call_id,
                       call_duration_seconds |-> IF duration # <<>> THEN Round2(duration[1]) ELSE 0,
                       cost_calculated_at |-> time]]]

finalize_call_cost(t, call_id, call_duration_seconds, time) ==
  IF call_id \notin DOMAIN t.call_costs THEN [tracker |-> t, result |-> <<>>]
  ELSE
    LET duration == IF call_duration_seconds = <<>> /\ call_id \in DOMAIN t.call_start_times
                    THEN <<time - t.call_start_times[call_id]>>
                    ELSE call_duration_seconds
        t1 == IF duration # <<>>
              THEN [t EXCEPT !.call_costs[call_id].call_duration_seconds = duration[1]]
              ELSE t
    IN [tracker |-> t1,
        result |-> CostBreakdown_to_dict(t1.call_costs[call_id]) @@
                   [call_metadata |->
                      [call_id |-> call_id,
                       call_duration_seconds |-> IF duration # <<>> THEN Round2(duration[1]) ELSE 0,
                       cost_calculated_at |-> time]]]

\* Variant: the start time of the call is kept.
cleanup_call_keeping_start_time(t, call_id) ==
  [call_metrics |-> Pop(t.call_metrics, call_id),
   call_costs |-> Pop(t.call_costs, call_id),
   call_start_times |-> t.call_start_times,
   history |-> [t.history EXCEPT ![call_id] = <<>>]]

cleanup_call(t, call_id) ==
  [call_metrics |-> Pop(t.call_metrics, call_id),
   call_costs |-> Pop(t.call_costs, call_id),
   call_start_times |-> Pop(t.call_start_times, call_id),
   history |-> [t.history EXCEPT ![call_id] = <<>>]]

\* ------------------------------------------------------- VocodeUsageHook
\* The hook hands its context tag to the tracker as the third (fourth for the
\* LLM) positional argument, which is the tracker's `model` parameter; the
\* tracker's own `context` keeps its default.
track_transcription_from_vocode(t, mapping, conversation_id, audio_duration, context) ==
  IF conversation_id \in DOMAIN mapping
  THEN add_transcription_usage(t, mapping[conversation_id], audio_duration, context,
                               "speech_to_text")
  ELSE t

track_synthesis_from_vocode(t, mapping, conversation_id, text_length, context) ==
  IF conversation_id \in DOMAIN mapping
  THEN add_synthesis_usage(t, mapping[conversation_id], text_length, context,
                           "text_to_speech")
  ELSE t

track_llm_from_vocode(t, mapping, conversation_id, input_tokens, output_tokens, context) ==
  IF conversation_id \in DOMAIN mapping
  THEN add_llm_usage(t, mapping[conversation_id], input_tokens, output_tokens, context,
                     "agent_response")
  ELSE t

cleanup_conversation(mapping, conversation_id) == Pop(mapping, conversation_id)

\* --------------------------------------------------- CustomEventsManager
\* The per-call maps of the events manager after __init__, with the
\* voicemail_configs map that store_voicemail_config creates on first use.
CustomEventsManager ==
  [call_start_times |-> <<>>, call_tags |-> <<>>, call_outcomes |-> <<>>,
   voicemail_messages |-> <<>>, voicemail_configs |-> <<>>, transfer_configs |-> <<>>,
   call_transcripts |-> <<>>, call_sids |-> <<>>, call_phone_numbers |-> <<>>]

\* _handle_phone_call_connected, up to the webhook it sends
_handle_phone_call_connected(em, conversation_id, call_start_time) ==
  [em EXCEPT !.call_start_times = Put(@, conversation_id, call_start_time)]

\* _handle_human_detection, up to the webhook it sends
_handle_human_detection(em, conversation_id, detection_result) ==
  [em EXCEPT !.call_outcomes =
     Put(@, conversation_id,
         [is_voicemail |-> detection_result = "no_human",
          human_detection_result |-> detection_result])]

\* The pops of the final cleanup of _handle_transcript_complete.
\* Variant: the stored tags of every call are dropped.
pop_stored_data_of_all(em, conversation_id) ==
  [em EXCEPT !.call_tags = <<>>,
             !.call_transcripts = Pop(@, conversation_id),
             !.call_sids = Pop(@, conversation_id)]

pop_stored_data(em, conversation_id) ==
  [em EXCEPT !.call_tags = Pop(@, conversation_id),
             !.call_transcripts = Pop(@, conversation_id),
             !.call_sids = Pop(@, conversation_id)]

\* ------------------------------------------- the handlers and failures
\* The handlers of CustomEventsManager as functions of what they work on,
\*   w = [events_manager, tracker, mapping, handling],
\* with the outcome of each stage that can fail as an argument.  handling
\* records what the handlers hand to the webhook endpoint and what becomes
\* of the exceptions: the payloads given to _send_webhook, the POST requests
\* made (with the index of their payload), the tags detected and the answer
\* of the classifier for the transcript in hand, whether a statement of a
\* handler raised outside the try blocks of the handler, the exceptions that
\* handle_event caught and whether one left handle_event.

\* What the webhook endpoint does with a POST request: it answers 200 or
\* another status, lets the 3 s timeout of the client pass, or refuses the
\* connection.
WebhookOutcomes == {"ok", "non_200", "timeout", "refused"}

\* What a handler (or a part of it between two awaits) ends with when it
\* returns; when it raises, raised is TRUE.
Done(w) == [world |-> w, raised |-> FALSE]

\* _send_webhook with a configured webhook_url: one client.post; an exception
\* of the request is logged and None is returned.
\* Variant: a request that did not get a 200 is made a second time.
_send_webhook_retrying(w, payload, outcome) ==
  LET index == Len(w.handling.payloads) + 1
      once == <<[payload |-> index, outcome |-> outcome]>>
  IN Done([w EXCEPT !.handling.payloads = Append(@, payload),
                    !.handling.posts = @ \o (IF outcome = "ok" THEN once ELSE once \o once)])

_send_webhook(w, payload, outcome) ==
  LET index == Len(w.handling.payloads) + 1
  IN Done([w EXCEPT !.handling.payloads = Append(@, payload),
                    !.handling.posts = Append(@, [payload |-> index, outcome |-> outcome])])

\* The payload of an event: its type, and for TRANSCRIPT_COMPLETE the tags
\* found and the twilio_call_cost_data (a sequence, empty for None).
Payload(type, call_id, tags_found, cost_data) ==
  [type |-> type, call_id |-> call_id, tags_found |-> tags_found,
   twilio_call_cost_data |-> cost_data]

\* str.upper() on the letters that occur in the answers of the classifier.
Upper(text) ==
  [i \in DOMAIN text |->
     CASE text[i] = "t" -> "T" [] text[i] = "r" -> "R" [] text[i] = "u" -> "U"
       [] text[i] = "e" -> "E" [] text[i] = "f" -> "F" [] text[i] = "a" -> "A"
       [] text[i] = "l" -> "L" [] text[i] = "s" -> "S" [] OTHER -> text[i]]

\* A line of the answer has the form that the parsing loop reads.
Readable(raw_line) ==
  LET line == Strip(raw_line)
      upper == Upper(line)
  IN /\ Cardinality({i \in DOMAIN line : line[i] = ":"}) >= 2
     /\ \/ Contains(upper, <<"T", "R", "U", "E">>)
        \/ Contains(upper, <<"F", "A", "L", "S", "E">>)

\* The tag that a line of the answer adds to detected_tags: the line is
\* stripped and split at its first two colons into tag_type, tag_name and
\* result; it counts when it says TRUE for a user_tag or a system_tag.
DetectedInLine(raw_line) ==
  LET line == Strip(raw_line)
      colons == {i \in DOMAIN line : line[i] = ":"}
  IN IF Readable(raw_line)
     THEN LET first == CHOOSE i \in colons : \A j \in colons : i <= j
              second == CHOOSE i \in colons \ {first} : \A j \in colons \ {first} : i <= j
              tag_type == Strip(SubSeq(line, 1, first - 1))
              tag_name == Strip(SubSeq(line, first + 1, second - 1))
              result == Upper(Strip(SubSeq(line, second + 1, Len(line))))
          IN IF result # <<"T", "R", "U", "E">> THEN {}
             ELSE IF tag_type = <<"u", "s", "e", "r", "_", "t", "a", "g">>
                  THEN {<<"u", "s", "e", "r", ":">> \o tag_name}
             ELSE IF tag_type = <<"s", "y", "s", "t", "e", "m", "_", "t", "a", "g">>
                  THEN {<<"s", "y", "s", "t", "e", "m", ":">> \o tag_name}
             ELSE {}
     ELSE {}

\* _evaluate_tags_with_llm for a call with tags to evaluate.  The answer of
\* the classifier is a text ("answer"), or the API key is missing or the
\* request fails, or the response holds no message; these are caught and
\* give no tags.  The usage of an
\* answered request is added with the tag "tag_evaluation" in the place of
\* the model.
\* Variant: an error of the API is not caught.
_evaluate_tags_with_llm_raising(w, call_id, classification, input_tokens, output_tokens) ==
  IF classification.kind = "api_error"
  THEN [world |-> [w EXCEPT !.handling.classifier = classification.kind], raised |-> TRUE]
  ELSE IF classification.kind # "answer"
  THEN Done([w EXCEPT !.handling.classifier = classification.kind,
                      !.handling.detected_tags = {}])
  ELSE LET lines == SplitLines(Strip(classification.text))
           detected_tags == UNION {DetectedInLine(lines[i]) : i \in DOMAIN lines}
       IN Done([w EXCEPT
                  !.handling.classifier = IF \E i \in DOMAIN lines : Readable(lines[i])
                                          THEN "answer" ELSE "unparsable",
                  !.handling.detected_tags = detected_tags,
                  !.tracker = add_llm_usage(@, call_id, input_tokens, output_tokens,
                                            "tag_evaluation", "agent_response")])

_evaluate_tags_with_llm(w, call_id, classification, input_tokens, output_tokens) ==
  IF classification.kind # "answer"
  THEN Done([w EXCEPT !.handling.classifier = classification.kind,
                      !.handling.detected_tags = {}])
  ELSE LET lines == SplitLines(Strip(classification.text))
           detected_tags == UNION {DetectedInLine(lines[i]) : i \in DOMAIN lines}
       IN Done([w EXCEPT
                  !.handling.classifier = IF \E i \in DOMAIN lines : Readable(lines[i])
                                          THEN "answer" ELSE "unparsable",
                  !.handling.detected_tags = detected_tags,
                  !.tracker = add_llm_usage(@, call_id, input_tokens, output_tokens,
                                            "tag_evaluation", "agent_response")])

\* The tags of the payload: "user:" and "system:" prefixes removed.
TagsFound(detected_tags) ==
  {IF StartsWith(tag, <<"u", "s", "e", "r", ":">>) THEN SubSeq(tag, 6, Len(tag))
   ELSE IF StartsWith(tag, <<"s", "y", "s", "t", "e", "m", ":">>) THEN SubSeq(tag, 8, Len(tag))
   ELSE tag : tag \in detected_tags}

\* handle_event: what a handler raises is caught and logged.
\* Variant: the exception is logged and raised again.
handle_event_reraising(handled) ==
  IF handled.raised
  THEN [handled.world EXCEPT !.handling.caught = @ + 1, !.handling.unwound = TRUE]
  ELSE handled.world

handle_event(handled) ==
  IF handled.raised THEN [handled.world EXCEPT !.handling.caught = @ + 1]
  ELSE handled.world

\* PHONE_CALL_CONNECTED: the start time is stored, the webhook sent.
on_phone_call_connected(w, conversation_id, call_start_time, outcome) ==
  _send_webhook([w EXCEPT !.events_manager =
                   _handle_phone_call_connected(@, conversation_id, call_start_time)],
                Payload("PHONE_CALL_CONNECTED", conversation_id, {}, <<>>), outcome)

\* The human-detection event: the outcome is stored, the webhook sent; the
\* handler catches what its statements raise.
on_human_detection(w, conversation_id, detection_result, outcome) ==
  Done(_send_webhook([w EXCEPT !.events_manager =
                        _handle_human_detection(@, conversation_id, detection_result)],
                     Payload("VOICEMAIL_DETECTED", conversation_id, {}, <<>>),
                     outcome).world)

\* PHONE_CALL_ENDED: the webhook is sent; no per-call map is written.
on_phone_call_ended(w, conversation_id, outcome) ==
  _send_webhook(w, Payload("PHONE_CALL_ENDED", conversation_id, {}, <<>>), outcome)

\* _handle_transcript_complete from the end of its sleep to its next await:
\* the tags are evaluated when the call has tags stored, then the tracker is
\* given the metadata and the estimates when the start time of the call is
\* stored, then the metrics and the cost breakdown are read for the payload.
\* stage_raises: a statement of this part outside _evaluate_tags_with_llm
\* raises (reading the metrics or the breakdown for the log and the payload).
on_transcript_evaluate(w, conversation_id, has_tags, classification, input_tokens, output_tokens, call_duration, stage_raises) ==
  LET evaluated == IF has_tags
                   THEN _evaluate_tags_with_llm(w, conversation_id, classification,
                                                input_tokens, output_tokens)
                   ELSE Done([w EXCEPT !.handling.detected_tags = {}])
      w1 == evaluated.world
      full_transcript == w1.events_manager.call_transcripts[conversation_id]
      w2 == IF conversation_id \in DOMAIN w1.events_manager.call_start_times
            THEN [w1 EXCEPT !.tracker =
                    estimate_usage_from_transcript(
                      update_call_metadata(@, conversation_id, call_duration,
                                           full_transcript),
                      conversation_id, full_transcript, call_duration)]
            ELSE w1
  IN IF evaluated.raised THEN evaluated
     ELSE IF stage_raises THEN [world |-> [w2 EXCEPT !.handling.stage_failed = TRUE], raised |-> TRUE]
     ELSE Done(w2)

\* The end of _handle_transcript_complete: the payload is assembled with the
\* tags found and the cost data of the lookup and sent, then the stored data
\* of the call and its tracking state are removed.
\* Variant: the data are removed once the endpoint has answered 200.
on_transcript_deliver_checking(w, conversation_id, twilio_call_cost_data, outcome) ==
  LET payload == Payload("TRANSCRIPT_COMPLETE", conversation_id,
                         TagsFound(w.handling.detected_tags), twilio_call_cost_data)
      sent == _send_webhook(w, payload, outcome)
  IN IF sent.raised \/ outcome # "ok" THEN sent
     ELSE Done([sent.world EXCEPT
                  !.events_manager = pop_stored_data(@, conversation_id),
                  !.tracker = cleanup_call(cleanup_call(@, conversation_id), conversation_id),
                  !.mapping = cleanup_conversation(@, conversation_id)])

on_transcript_deliver(w, conversation_id, twilio_call_cost_data, outcome) ==
  LET payload == Payload("TRANSCRIPT_COMPLETE", conversation_id,
                         TagsFound(w.handling.detected_tags), twilio_call_cost_data)
      sent == _send_webhook(w, payload, outcome)
  IN IF sent.raised THEN sent
     ELSE Done([sent.world EXCEPT
                  !.events_manager = pop_stored_data(@, conversation_id),
                  !.tracker = cleanup_call(cleanup_call(@, conversation_id), conversation_id),
                  !.mapping = cleanup_conversation(@, conversation_id)])

\* -------------------------------------------------- the outcome of a call
\* _detect_voicemail_from_transcript, _detect_call_rejection and
\* _analyze_call_outcome of CustomEventsManager.

\* str.lower() on a text.
LowerText(text) ==
  LET upper == <<"A", "B", "C", "D", "E", "F", "G", "H", "I", "J", "K", "L", "M",
                "N", "O", "P", "Q", "R", "S", "T", "U", "V", "W", "X", "Y", "Z">>
      lower == <<"a", "b", "c", "d", "e", "f", "g", "h", "i", "j", "k", "l", "m",
                "n", "o", "p", "q", "r", "s", "t", "u", "v", "w", "x", "y", "z">>
  IN [i \in DOMAIN text |->
        IF \E k \in DOMAIN upper : upper[k] = text[i]
        THEN lower[CHOOSE k \in DOMAIN upper : upper[k] = text[i]]
        ELSE text[i]]

\* _detect_voicemail_from_transcript.
\* Variant: a strong indicator counts as a weak one.
_detect_voicemail_from_transcript_counting(transcript) ==
  Cardinality({phrase \in {<<"a", "t", " ", "t", "h", "e", " ", "t", "o", "n", "e">>,
                           <<"l", "e", "a", "v", "e", " ", "a", " ", "m", "e", "s", "s", "a", "g", "e">>,
                           <<"n", "o", "t", " ", "a", "v", "a", "i", "l", "a", "b", "l", "e">>,
                           <<"p", "l", "e", "a", "s", "e", " ", "l", "e", "a", "v", "e">>} :
                 Contains(LowerText(transcript), phrase)}) >= 2

_detect_voicemail_from_transcript(transcript) ==
  LET transcript_lower == LowerText(transcript)
      strong_indicators ==
        << <<"v", "o", "i", "c", "e", " ", "m", "a", "i", "l">>,
           <<"v", "o", "i", "c", "e", "m", "a", "i", "l">>,
           <<"v", "o", "i", "c", "e", " ", "m", "e", "s", "s", "a", "g", "e">>,
           <<"p", "l", "e", "a", "s", "e", " ", "r", "e", "c", "o", "r", "d", " ", "y", "o", "u", "r", " ", "m", "e", "s", "s", "a", "g", "e">>,
           <<"a", "t", " ", "t", "h", "e", " ", "t", "o", "n", "e">>,
           <<"l", "e", "a", "v", "e", " ", "a", " ", "m", "e", "s", "s", "a", "g", "e">>,
           <<"a", "f", "t", "e", "r", " ", "t", "h", "e", " ", "b", "e", "e", "p">>,
           <<"r", "e", "c", "o", "r", "d", " ", "y", "o", "u", "r", " ", "m", "e", "s", "s", "a", "g", "e">>,
           <<"m", "a", "i", "l", "b", "o", "x", " ", "i", "s", " ", "f", "u", "l", "l">>,
           <<"f", "o", "r", "w", "a", "r", "d", "e", "d", " ", "t", "o", " ", "v", "o", "i", "c", "e", " ", "m", "a", "i", "l">> >>
      weak_indicators ==
        << <<"n", "o", "t", " ", "a", "v", "a", "i", "l", "a", "b", "l", "e">>,
           <<"c", "a", "n", "'", "t", " ", "c", "o", "m", "e", " ", "t", "o", " ", "t", "h", "e", " ", "p", "h", "o", "n", "e">>,
           <<"p", "l", "e", "a", "s", "e", " ", "l", "e", "a", "v", "e">>,
           <<"s", "u", "b", "s", "c", "r", "i", "b", "e", "r", " ", "y", "o", "u", " ", "h", "a", "v", "e", " ", "c", "a", "l", "l", "e", "d">>,
           <<"t", "h", "e", " ", "p", "e", "r", "s", "o", "n", " ", "y", "o", "u", "'", "r", "e", " ", "t", "r", "y", "i", "n", "g", " ", "t", "o", " ", "r", "e", "a", "c", "h">>,
           <<"i", "s", " ", "n", "o", "t", " ", "a", "v", "a", "i", "l", "a", "b", "l", "e", " ", "a", "t", " ", "t", "h", "i", "s", " ", "t", "i", "m", "e">>,
           <<"p", "l", "e", "a", "s", "e", " ", "t", "r", "y", " ", "y", "o", "u", "r", " ", "c", "a", "l", "l", " ", "a", "g", "a", "i", "n">> >>
      weak_count == Cardinality({i \in DOMAIN weak_indicators :
                                   Contains(transcript_lower, weak_indicators[i])})
  IN /\ transcript # <<>>
     /\ \/ \E i \in DOMAIN strong_indicators :
             Contains(transcript_lower, strong_indicators[i])
        \/ weak_count >= 2

\* _detect_call_rejection.  An event is a record of its attributes
\* end_reason, status and call_status (endReason, reason and callStatus are
\* read in the same way), each a text, <<>> when the event does not have it.
\* Variant: the duration alone decides.
_detect_call_rejection_by_duration(duration_seconds, end_reason, event) ==
  duration_seconds < 10

_detect_call_rejection(duration_seconds, end_reason, event) ==
  LET rejection_reasons ==
        << <<"b", "u", "s", "y">>,
           <<"d", "e", "c", "l", "i", "n", "e", "d">>,
           <<"r", "e", "j", "e", "c", "t", "e", "d">>,
           <<"n", "o", "-", "a", "n", "s", "w", "e", "r">>,
           <<"f", "a", "i", "l", "e", "d">>,
           <<"c", "a", "n", "c", "e", "l">>,
           <<"u", "s", "e", "r", "-", "b", "u", "s", "y">>,
           <<"c", "a", "l", "l", "-", "r", "e", "j", "e", "c", "t", "e", "d">>,
           <<"u", "n", "a", "v", "a", "i", "l", "a", "b", "l", "e">>,
           <<"t", "i", "m", "e", "o", "u", "t">>,
           <<"u", "n", "r", "e", "a", "c", "h", "a", "b", "l", "e">>,
           <<"n", "o", "t", "-", "a", "n", "s", "w", "e", "r", "e", "d">>,
           <<"c", "a", "l", "l", "e", "r", "-", "c", "a", "n", "c", "e", "l", "l", "e", "d">>,
           <<"r", "e", "c", "i", "p", "i", "e", "n", "t", "-", "b", "u", "s", "y">>,
           <<"l", "i", "n", "e", "-", "b", "u", "s", "y">>,
           <<"n", "e", "t", "w", "o", "r", "k", "-", "u", "n", "r", "e", "a", "c", "h", "a", "b", "l", "e">>,
           <<"c", "a", "l", "l", "-", "f", "a", "i", "l", "e", "d">>,
           <<"i", "n", "v", "a", "l", "i", "d", "-", "n", "u", "m", "b", "e", "r">>,
           <<"b", "l", "o", "c", "k", "e", "d">>,
           <<"s", "e", "r", "v", "i", "c", "e", "-", "u", "n", "a", "v", "a", "i", "l", "a", "b", "l", "e">>,
           <<"t", "e", "m", "p", "o", "r", "a", "r", "y", "-", "f", "a", "i", "l", "u", "r", "e">>,
           <<"d", "e", "s", "t", "i", "n", "a", "t", "i", "o", "n", "-", "u", "n", "r", "e", "a", "c", "h", "a", "b", "l", "e">> >>
      end_reason_lower == LowerText(end_reason)
      reason_rejected == \E i \in DOMAIN rejection_reasons :
                           Contains(end_reason_lower, rejection_reasons[i])
      duration_rejected == duration_seconds < 10
      brief_call == duration_seconds < 20
      status_rejected ==
        \E attr \in {"status", "call_status"} :
          /\ event[attr] # <<>>
          /\ LowerText(event[attr]) \in
               {<<"b", "u", "s", "y">>, <<"n", "o", "-", "a", "n", "s", "w", "e", "r">>, <<"f", "a", "i", "l", "e", "d">>,
                <<"c", "a", "n", "c", "e", "l", "e", "d">>, <<"d", "e", "c", "l", "i", "n", "e", "d">>}
  IN \/ reason_rejected
     \/ status_rejected
     \/ /\ duration_rejected
        /\ end_reason_lower \notin {<<"c", "o", "m", "p", "l", "e", "t", "e", "d">>, <<"h", "a", "n", "g", "u", "p">>}
     \/ /\ brief_call
        /\ end_reason_lower \in {<<"b", "u", "s", "y">>, <<"f", "a", "i", "l", "e", "d">>,
                                 <<"c", "a", "n", "c", "e", "l", "e", "d">>}

\* _analyze_call_outcome: the voicemail result stored for the call, the end
\* reason (the first attribute of the event that is set, "unknown" without
\* one), the rejection and the outcome.
_analyze_call_outcome(em, conversation_id, event, duration_seconds) ==
  LET is_voicemail == /\ conversation_id \in DOMAIN em.call_outcomes
                      /\ em.call_outcomes[conversation_id].is_voicemail
      end_reason == IF event.end_reason # <<>> THEN event.end_reason
                    ELSE IF event.status # <<>> THEN event.status
                    ELSE <<"u", "n", "k", "n", "o", "w", "n">>
      is_rejected == _detect_call_rejection(duration_seconds, end_reason, event)
  IN [outcome |-> IF is_voicemail THEN "voicemail"
                  ELSE IF is_rejected THEN "rejected"
                  ELSE IF duration_seconds > 60 THEN "completed"
                  ELSE IF duration_seconds < 10 THEN "failed"
                  ELSE "completed",
      is_voicemail |-> is_voicemail, is_rejected |-> is_rejected,
      end_reason |-> end_reason, duration_seconds |-> duration_seconds]

\* ------------------------------------------------------ the LiveKit worker
\* The end of a call in the LiveKit worker (handle_disconnect): what the
\* worker has done, the payloads it gave to send_webhook, the POST requests
\* made, and the result of the tag analysis.
NoAnalysis ==
  [user_tags_found |-> {}, system_tags_found |-> {}, callback_requested |-> FALSE,
   callback_time |-> <<>>]

\* send_webhook with a webhook URL: one session.post; a status other than
\* 200, the timeout and every other exception are logged.
send_webhook(wk, payload, outcome) ==
  [wk EXCEPT !.payloads = Append(@, payload),
             !.posts = Append(@, [payload |-> Len(wk.payloads) + 1, outcome |-> outcome])]

\* analyze_tags_with_llm for a call with tags: the fields of the JSON object
\* of the answer; an answer that is not JSON, an empty answer and a failed
\* request give no tags and no callback.
analyze_tags_with_llm(answer) ==
  IF answer.kind = "json" THEN answer.result ELSE NoAnalysis

\* ------------------------------------------------------ TwilioCostFetcher
\* The defaults of fetch_call_cost: the number of attempts and the delay
\* between two attempts, in milliseconds.
max_retries == 10

retry_delay == 2000

\* round(seconds / 60, 4), in 1/10000 minute: the nearest whole number to
\* seconds * 10000 / 60 (thirds have no tie).
Round4Minutes(seconds) ==
  LET n == seconds * 500
  IN IF n % 3 = 2 THEN (n \div 3) + 1 ELSE n \div 3

\* The standard rates of _calculate_fallback_cost by call direction, in money
\* units per sixtieth of a minute (0.0497 $/min = 497000 units).
fallback_rates ==
  ("outbound-api" :> 497000) @@ ("inbound" :> 85000) @@ ("client-outbound" :> 40000)
  @@ ("sip-outbound" :> 40000) @@ ("sip-inbound" :> 85000)

\* _parse_call_data: the record of a call with a price; Twilio reports the
\* price of an outbound call as a negative amount.
_parse_call_data(call_data) ==
  [data_source |-> "twilio_api",
   cost_usd |-> Round6(IF call_data.price < 0 THEN -call_data.price ELSE call_data.price),
   duration_seconds |-> call_data.duration,
   duration_minutes |-> IF call_data.duration > 0 THEN Round4Minutes(call_data.duration)
                        ELSE 0]

\* _calculate_fallback_cost: the estimated record, as a sequence that is
\* empty (None) for a call without duration or that was not completed.
\* duration_minutes is (duration_seconds + 59) / 60, a true division.
_calculate_fallback_cost(call_data) ==
  IF call_data.duration <= 0 \/ call_data.status # "completed" THEN <<>>
  ELSE LET rate == IF call_data.direction \in DOMAIN fallback_rates
                   THEN fallback_rates[call_data.direction]
                   ELSE fallback_rates["outbound-api"]
           calculated_cost == (call_data.duration + 59) * rate
       IN << [data_source |-> "calculated_fallback",
              cost_usd |-> Round6(calculated_cost),
              duration_seconds |-> call_data.duration,
              duration_minutes |-> Round4Minutes(call_data.duration + 59)] >>

\* ---- the credentials of the fetcher
\* The fetcher of the process, twilio_cost_fetcher, before a request
\* configured it, and the requests made through it: who made the request,
\* for which resource, and the account of its URL and of its BasicAuth.

configure_credentials(f, account_sid, auth_token) ==
  [f EXCEPT !.account_sid = account_sid, !.auth_token = auth_token,
            !.base_url = account_sid]

\* url = f"{self.base_url}/..." and auth = BasicAuth(self.account_sid,
\* self.auth_token), read when the request is made.
session_get(f, conversation_id, resource) ==
  [f EXCEPT !.requests = Append(@, [conversation_id |-> conversation_id,
                                    resource |-> resource, base_url |-> f.base_url,
                                    account_sid |-> f.account_sid,
                                    auth_token |-> f.auth_token])]

\* A lookup that has not begun.
NoLookup ==
  [at |-> "idle", attempt |-> 0, requests |-> 0, slept |-> 0, errors |-> 0,
   call_data |-> [duration |-> 0, direction |-> "", status |-> "", price |-> 0],
   result |-> <<>>]

Returned(fetch, result) == [fetch EXCEPT !.at = "returned", !.result = result]

\* fetch_call_cost up to its first request: it returns None without a
\* request when the credentials are not configured or the call SID does not
\* start with "CA".  call_data is what the API holds about the call.
fetch_call_cost(configured, call_sid, call_data) ==
  IF ~configured \/ call_sid = <<>> \/ ~StartsWith(call_sid, <<"C", "A">>)
  THEN Returned(NoLookup, <<>>)
  ELSE [NoLookup EXCEPT !.at = "requesting", !.call_data = call_data]

\* The body of the loop of fetch_call_cost for the answer to the request of
\* the attempt: a 200 with a price ("priced"), a 200 without one
\* ("unpriced"), a 200 whose body is not JSON ("malformed": response.json()
\* raises), another status ("non_200"), or an exception of the request
\* ("timeout").
on_response(fetch, response) ==
  LET requested == [fetch EXCEPT !.requests = @ + 1]
      last_attempt == fetch.attempt = max_retries - 1
  IN CASE response = "priced" ->
            Returned(requested, <<_parse_call_data(fetch.call_data)>>)
       [] response = "unpriced" ->
            IF last_attempt
            THEN Returned(requested, _calculate_fallback_cost(fetch.call_data))
            ELSE [requested EXCEPT !.at = "sleeping"]
       [] response = "non_200" -> Returned(requested, <<>>)
       [] OTHER ->
            LET failed == [requested EXCEPT !.errors = @ + 1]
            IN IF ~last_attempt THEN [failed EXCEPT !.at = "sleeping"]
               ELSE Returned(failed, <<>>)

\* The end of `await asyncio.sleep(retry_delay)`: the next attempt.
\* Variant: the lookup tries again without counting the attempt.
after_sleep_uncounted(fetch) ==
  [fetch EXCEPT !.at = "requesting", !.slept = @ + retry_delay]

after_sleep(fetch) ==
  [fetch EXCEPT !.at = "requesting", !.attempt = @ + 1, !.slept = @ + retry_delay]

\* ------------------------------------------------------------------ state
VARIABLES
  call_metrics,             \* UnifiedCostTracker.call_metrics
  call_costs,               \* UnifiedCostTracker.call_costs
  call_start_times,         \* UnifiedCostTracker.call_start_times
  conversation_to_call_id,  \* VocodeUsageHook.conversation_to_call_id
  history,                  \* per call id, the requests recorded since registration
  last,                     \* the call id the last usage-tracking request was
                            \* made for and whether that id was registered then
  events_manager,           \* the per-call maps of CustomEventsManager
  pc,                       \* per call id, the position of its request handler
                            \* (api) and of its transcript handler (transcript)
  seen,                     \* per call id, what was processed out of its order
  now,                      \* time.time(), in milliseconds
  returned,                 \* what the last calls of finalize_call_cost returned
  lookup,                   \* the fetch_call_cost in progress
  handling,                 \* what the event handlers sent, caught and let pass
  worker,                   \* the end of the call in the LiveKit worker
  fetcher,                  \* the TwilioCostFetcher of the process and the requests
                            \* made through it
  entrypoint                \* the LiveKit worker from the joined participant to
                            \* the start of the assistant, and the SIP leg

vars == <<call_metrics, call_costs, call_start_times, conversation_to_call_id,
          history, last, events_manager, pc, seen, now, returned, lookup, handling, worker,
          fetcher, entrypoint>>

\* What the tracker, the request handler and the event handlers of the
\* lifecycle leave alone.
in_progress == <<lookup, handling, worker, fetcher, entrypoint>>

\* What the operations of the tracker and of the usage hook leave alone.
beyond_tracker == <<events_manager, pc, seen, now, returned, in_progress>>

Tracker ==
  [call_metrics |-> call_metrics, call_costs |-> call_costs,
   call_start_times |-> call_start_times, history |-> history]

Becomes(t) ==
  /\ call_metrics' = t.call_metrics
  /\ call_costs' = t.call_costs
  /\ call_start_times' = t.call_start_times
  /\ history' = t.history

Registered == DOMAIN call_metrics

Requested(call_id) ==
  last' = [call_id |-> call_id, registered |-> call_id \in Registered]

RECURSIVE Sum(_, _)
Sum(f, S) ==
  IF S = {} THEN 0
  ELSE LET x == CHOOSE x \in S : TRUE IN f[x] + Sum(f, S \ {x})

\* n more requests for call_id may be made: it is not registered (nothing
\* will be recorded) or the budget of recorded requests allows them.
MayAdd(call_id, n) == call_id \notin Registered \/ (Sum([c \in CallIds |-> Len(history[c])], CallIds)) + n <= MaxOps

\* ----------------------------------------------------------------- inputs
\* The reading of time.time() at registration.  No operation of the tracker
\* modelled here reads the start time back, so one reading stands for all.
StartTime == 0

\* 1.000 s and 1.234 s
Durations == {1000, 1234}

Characters == {5}

Tokens == {<<10, 3>>}

\* 61 s
CallDurations == {61000}

NoCostData == [data_source |-> "none", cost_usd |-> 0, duration_minutes |-> 0]

Init ==
  /\ call_metrics = <<>>
  /\ call_costs = <<>>
  /\ call_start_times = <<>>
  /\ conversation_to_call_id = <<>>
  /\ history = [c \in CallIds |-> <<>>]
  /\ last = [call_id |-> "", registered |-> FALSE]
  /\ events_manager = CustomEventsManager
  /\ pc = [c \in CallIds |-> [api |-> "idle", transcript |-> "none"]]
  /\ seen = [c \in CallIds |-> {}]
  /\ now = 0
  /\ returned = <<>>
  /\ lookup = NoLookup
  /\ handling = [payloads |-> <<>>, posts |-> <<>>, detected_tags |-> {}, classifier |-> "",
                 stage_failed |-> FALSE, caught |-> 0, unwound |-> FALSE]
  /\ worker = [at |-> "connected", payloads |-> <<>>, posts |-> <<>>, classifier |-> "",
               analysis |-> NoAnalysis]
  /\ fetcher = [account_sid |-> "", auth_token |-> "", base_url |-> "", requests |-> <<>>]
  /\ entrypoint = [at |-> "connecting", kind |-> "", webhook_url |-> FALSE, elapsed |-> 0,
                   status |-> "unknown", in_room |-> FALSE, was_active |-> FALSE,
                   sent |-> <<>>]

\* ---------------------------------------------------------------- actions
\* api_start_outbound_call, once the call is dispatched: both
\* start_call_tracking calls, then the registration with the usage hook.
ApiStartOutboundCall(conversation_id, tts_provider, tts_model) ==
  /\ conversation_id \in Registered \/ Cardinality(Registered) < MaxCalls
  /\ LET t1 == start_call_tracking(Tracker, conversation_id, "deepgram", "nova-2",
                                   tts_provider, "default", "openai", "gpt-4o-mini", StartTime)
         t2 == start_call_tracking(t1, conversation_id, "deepgram", "nova-2",
                                   tts_provider, tts_model, "openai", "gpt-4o-mini", StartTime)
     IN Becomes(t2)
  /\ conversation_to_call_id' =
       Put(conversation_to_call_id, conversation_id, conversation_id)
  /\ UNCHANGED <<last, beyond_tracker>>

AddTranscriptionUsage(call_id, duration_seconds, model, context) ==
  /\ MayAdd(call_id, 1)
  /\ Becomes(add_transcription_usage(Tracker, call_id, duration_seconds, model, context))
  /\ Requested(call_id)
  /\ UNCHANGED <<conversation_to_call_id, beyond_tracker>>

AddSynthesisUsage(call_id, character_count, model, context) ==
  /\ MayAdd(call_id, 1)
  /\ Becomes(add_synthesis_usage(Tracker, call_id, character_count, model, context))
  /\ Requested(call_id)
  /\ UNCHANGED <<conversation_to_call_id, beyond_tracker>>

AddLLMUsage(call_id, input_tokens, output_tokens, model, context) ==
  /\ MayAdd(call_id, 1)
  /\ Becomes(add_llm_usage(Tracker, call_id, input_tokens, output_tokens, model, context))
  /\ Requested(call_id)
  /\ UNCHANGED <<conversation_to_call_id, beyond_tracker>>

AddTelephonyCost(call_id, call_duration_seconds, call_type, recording_enabled, real_cost_data) ==
  /\ MayAdd(call_id, 1)
  /\ Becomes(add_telephony_cost(Tracker, call_id, call_duration_seconds, call_type,
                                recording_enabled, real_cost_data))
  /\ Requested(call_id)
  /\ UNCHANGED <<conversation_to_call_id, beyond_tracker>>

UpdateCallMetadata(call_id, duration_seconds, transcript_text) ==
  /\ MayAdd(call_id, 1)
  /\ Becomes(update_call_metadata(Tracker, call_id, duration_seconds, transcript_text))
  /\ Requested(call_id)
  /\ UNCHANGED <<conversation_to_call_id, beyond_tracker>>

EstimateUsageFromTranscript(call_id, transcript_text, call_duration_seconds) ==
  /\ MayAdd(call_id, 2)
  /\ Becomes(estimate_usage_from_transcript(Tracker, call_id, transcript_text,
                                            call_duration_seconds))
  /\ Requested(call_id)
  /\ UNCHANGED <<conversation_to_call_id, beyond_tracker>>

\* The final cleanup of _handle_transcript_complete: both cleanup_call calls
\* and the removal of the usage-hook mapping.
FinalCleanup(conversation_id) ==
  /\ Becomes(cleanup_call(cleanup_call(Tracker, conversation_id), conversation_id))
  /\ conversation_to_call_id' =
       cleanup_conversation(conversation_to_call_id, conversation_id)
  /\ UNCHANGED <<last, beyond_tracker>>

TrackTranscriptionFromVocode(conversation_id, audio_duration) ==
  /\ conversation_id \in DOMAIN conversation_to_call_id
  /\ MayAdd(conversation_to_call_id[conversation_id], 1)
  /\ Becomes(track_transcription_from_vocode(Tracker, conversation_to_call_id,
                                             conversation_id, audio_duration,
                                             "live_transcription"))
  /\ Requested(conversation_to_call_id[conversation_id])
  /\ UNCHANGED <<conversation_to_call_id, beyond_tracker>>

TrackSynthesisFromVocode(conversation_id, text_length) ==
  /\ conversation_id \in DOMAIN conversation_to_call_id
  /\ MayAdd(conversation_to_call_id[conversation_id], 1)
  /\ Becomes(track_synthesis_from_vocode(Tracker, conversation_to_call_id,
                                         conversation_id, text_length, "live_synthesis"))
  /\ Requested(conversation_to_call_id[conversation_id])
  /\ UNCHANGED <<conversation_to_call_id, beyond_tracker>>

TrackLLMFromVocode(conversation_id, input_tokens, output_tokens) ==
  /\ conversation_id \in DOMAIN conversation_to_call_id
  /\ MayAdd(conversation_to_call_id[conversation_id], 1)
  /\ Becomes(track_llm_from_vocode(Tracker, conversation_to_call_id, conversation_id,
                                   input_tokens, output_tokens, "live_agent_response"))
  /\ Requested(conversation_to_call_id[conversation_id])
  /\ UNCHANGED <<conversation_to_call_id, beyond_tracker>>

Next ==
  \/ \E c \in CallIds, tts \in TtsConfigs : ApiStartOutboundCall(c, tts[1], tts[2])
  \/ \E c \in CallIds, d \in Durations, ctx \in {"speech_to_text", "live_transcription", "speech_recognition_from_transcript"} :
       AddTranscriptionUsage(c, d, None, ctx)
  \/ \E c \in CallIds, n \in Characters, ctx \in {"text_to_speech", "live_synthesis", "agent_responses_from_transcript"} :
       AddSynthesisUsage(c, n, None, ctx)
  \/ \E c \in CallIds, tk \in Tokens, ctx \in {"agent_response", "live_agent_response", "agent_conversation"} :
       AddLLMUsage(c, tk[1], tk[2], None, ctx)
  \/ \E c \in CallIds, d \in CallDurations, tel \in {<<FALSE, NoCostData>>, <<TRUE, [data_source |-> "twilio_api", cost_usd |-> 5100000, duration_minutes |-> 1]>>} :
       AddTelephonyCost(c, d, "outbound_default", tel[1], tel[2])
  \/ \E c \in CallIds, d \in CallDurations : UpdateCallMetadata(c, d, FullTranscript)
  \/ \E c \in CallIds, d \in Durations, tr \in Transcripts :
       EstimateUsageFromTranscript(c, tr, d)
  \/ \E c \in CallIds : FinalCleanup(c)
  \/ \E c \in CallIds, d \in Durations : TrackTranscriptionFromVocode(c, d)
  \/ \E c \in CallIds, n \in Characters : TrackSynthesisFromVocode(c, n)
  \/ \E c \in CallIds, tk \in Tokens : TrackLLMFromVocode(c, tk[1], tk[2])

Spec == Init /\ [][Next]_vars

\* ============================================== the lifecycle of a call
\* The request handler api_start_outbound_call and the event handlers of
\* CustomEventsManager, cut at their awaits: an action is what a handler does
\* between two suspension points, and the handlers of different calls
\* interleave at these points.

\* What a call request asks for: the text-to-speech provider and model, the
\* user tags to evaluate and whether call transfer is enabled.
CallRequests ==
  { [tts_provider |-> "eleven_labs", tts_model |-> "eleven_flash_v2",
     user_tags |-> <<>>, transfer_enabled |-> FALSE],
    [tts_provider |-> "ElevenLabs", tts_model |-> "Multilingual_V2",
     user_tags |-> <<"interested">>, transfer_enabled |-> TRUE] }

\* The tracking state of the call is not in place when one of its events is
\* processed: not yet, or not any more.
OutOfOrder(conversation_id) ==
  IF conversation_id \in Registered THEN {}
  ELSE IF pc[conversation_id].transcript = "returned" THEN {"event_after_purge"}
  ELSE {"event_before_registration"}

Noted(conversation_id, what) == seen' = [seen EXCEPT ![conversation_id] = @ \cup what]

At(conversation_id, task, position) ==
  pc' = [pc EXCEPT ![conversation_id][task] = position]

\* Vocode publishes events of a conversation once its call has been placed:
\* the events of the connection before the transcript of the conversation,
\* and the end of the phone call after it.
Placed(conversation_id) == pc[conversation_id].api # "idle"

Talking(conversation_id) ==
  Placed(conversation_id) /\ pc[conversation_id].transcript = "none"

Terminated(conversation_id) ==
  Placed(conversation_id) /\ pc[conversation_id].transcript # "none"

\* api_start_outbound_call up to `await start_dynamic_outbound_call(...)`:
\* the call is placed and has its conversation id.
StartDynamicOutboundCall(conversation_id) ==
  /\ pc[conversation_id].api = "idle"
  /\ At(conversation_id, "api", "dispatched")
  /\ UNCHANGED <<call_metrics, call_costs, call_start_times, conversation_to_call_id,
                  history, last, events_manager, seen, now, returned, in_progress>>

\* api_start_outbound_call from the return of start_dynamic_outbound_call to
\* its own return: phone numbers, both start_call_tracking calls, the usage
\* hook mapping, then store_call_tags, store_voicemail_config and
\* store_transfer_config.
RegisterOutboundCall(conversation_id, request) ==
  /\ pc[conversation_id].api = "dispatched"
  /\ LET t1 == start_call_tracking(Tracker, conversation_id, "deepgram", "nova-2",
                                   request.tts_provider, "default", "openai",
                                   "gpt-4o-mini", StartTime)
         t2 == start_call_tracking(t1, conversation_id, "deepgram", "nova-2",
                                   request.tts_provider, request.tts_model, "openai",
                                   "gpt-4o-mini", StartTime)
     IN Becomes(t2)
  /\ conversation_to_call_id' =
       Put(conversation_to_call_id, conversation_id, conversation_id)
  /\ LET em1 == [events_manager EXCEPT !.call_phone_numbers =
                   Put(@, conversation_id,
                       [from_phone |-> "from", to_phone |-> "to",
                        call_start_time |-> StartTime,
                        twilio_account_sid |-> "account_sid",
                        twilio_auth_token |-> "auth_token"])]
         em2 == IF request.user_tags # <<>>
                THEN [em1 EXCEPT !.call_tags =
                        Put(@, conversation_id,
                            [user_tags |-> request.user_tags, system_tags |-> <<>>])]
                ELSE em1
         em3 == [em2 EXCEPT !.voicemail_configs =
                   Put(@, conversation_id,
                       [detection |-> FALSE, message |-> "", recording |-> FALSE])]
         em4 == IF request.transfer_enabled
                THEN [em3 EXCEPT !.transfer_configs =
                        Put(@, conversation_id,
                            [enabled |-> TRUE, phone_number |-> "number", message |-> ""])]
                ELSE em3
     IN events_manager' = em4
  /\ At(conversation_id, "api", "returned")
  /\ UNCHANGED <<last, seen, now, returned, in_progress>>

PhoneCallConnected(conversation_id) ==
  /\ Talking(conversation_id)
  /\ conversation_id \notin DOMAIN events_manager.call_start_times
  /\ events_manager' =
       _handle_phone_call_connected(events_manager, conversation_id, StartTime)
  /\ Noted(conversation_id, OutOfOrder(conversation_id))
  /\ UNCHANGED <<call_metrics, call_costs, call_start_times, conversation_to_call_id,
                  history, last, pc, now, returned, in_progress>>

HumanDetection(conversation_id, detection_result) ==
  /\ Talking(conversation_id)
  /\ conversation_id \notin DOMAIN events_manager.call_outcomes
  /\ events_manager' =
       _handle_human_detection(events_manager, conversation_id, detection_result)
  /\ Noted(conversation_id, OutOfOrder(conversation_id))
  /\ UNCHANGED <<call_metrics, call_costs, call_start_times, conversation_to_call_id,
                  history, last, pc, now, returned, in_progress>>

\* _handle_phone_call_ended reads the stored start time and outcome and sends
\* its webhook; it writes no per-call map.
PhoneCallEnded(conversation_id) ==
  /\ Terminated(conversation_id)
  /\ "ended" \notin seen[conversation_id]
  /\ Noted(conversation_id, {"ended"} \cup OutOfOrder(conversation_id))
  /\ UNCHANGED <<call_metrics, call_costs, call_start_times, conversation_to_call_id,
                  history, last, events_manager, pc, now, returned, in_progress>>

\* _handle_transcript_complete up to `await asyncio.sleep(5)`.
TranscriptCompleteStore(conversation_id, full_transcript) ==
  /\ Placed(conversation_id)
  /\ pc[conversation_id].transcript = "none"
  /\ events_manager' = [events_manager EXCEPT !.call_transcripts =
                          Put(@, conversation_id, full_transcript)]
  /\ At(conversation_id, "transcript", "sleeping")
  /\ Noted(conversation_id, OutOfOrder(conversation_id))
  /\ UNCHANGED <<call_metrics, call_costs, call_start_times, conversation_to_call_id,
                  history, last, now, returned, in_progress>>

\* self.call_tags.get(conversation_id, {}) holds a tag to evaluate
HasTags(conversation_id) ==
  /\ conversation_id \in DOMAIN events_manager.call_tags
  /\ \/ events_manager.call_tags[conversation_id].user_tags # <<>>
     \/ events_manager.call_tags[conversation_id].system_tags # <<>>

\* From the end of the sleep to the request that _evaluate_tags_with_llm
\* awaits, for a call with stored tags (the transcripts of the model hold no
\* voicemail and no end-of-call phrase).
TranscriptCompleteEvaluate(conversation_id) ==
  /\ pc[conversation_id].transcript = "sleeping"
  /\ HasTags(conversation_id)
  /\ At(conversation_id, "transcript", "evaluating")
  /\ UNCHANGED <<call_metrics, call_costs, call_start_times, conversation_to_call_id,
                  history, last, events_manager, seen, now, returned, in_progress>>

\* From the answer of the tag evaluation (or from the end of the sleep, for a
\* call without tags) to the next await: the LLM usage of the evaluation,
\* then update_call_metadata and estimate_usage_from_transcript when the
\* start time of the call is stored, then the metrics and the cost breakdown
\* for the payload.
TranscriptCompleteReport(conversation_id, input_tokens, output_tokens, call_duration) ==
  /\ \/ pc[conversation_id].transcript = "evaluating"
     \/ pc[conversation_id].transcript = "sleeping" /\ ~HasTags(conversation_id)
  /\ LET full_transcript == events_manager.call_transcripts[conversation_id]
         t1 == IF pc[conversation_id].transcript = "evaluating"
               THEN add_llm_usage(Tracker, conversation_id, input_tokens, output_tokens,
                                  "tag_evaluation", "agent_response")
               ELSE Tracker
         t2 == IF conversation_id \in DOMAIN events_manager.call_start_times
               THEN estimate_usage_from_transcript(
                      update_call_metadata(t1, conversation_id, call_duration,
                                           full_transcript),
                      conversation_id, full_transcript, call_duration)
               ELSE t1
     IN Becomes(t2)
  /\ At(conversation_id, "transcript", "sending")
  /\ UNCHANGED <<conversation_to_call_id, last, events_manager, seen, now, returned, in_progress>>

\* After the TRANSCRIPT_COMPLETE webhook is sent: the final cleanup, to the
\* return of the handler.
TranscriptCompleteCleanup(conversation_id) ==
  /\ pc[conversation_id].transcript = "sending"
  /\ events_manager' = pop_stored_data(events_manager, conversation_id)
  /\ Becomes(cleanup_call(cleanup_call(Tracker, conversation_id), conversation_id))
  /\ conversation_to_call_id' =
       cleanup_conversation(conversation_to_call_id, conversation_id)
  /\ At(conversation_id, "transcript", "returned")
  /\ UNCHANGED <<last, seen, now, returned, in_progress>>

\* A usage report made to the tracker for a placed call, once per call.
UsageReport(call_id, character_count) ==
  /\ Placed(call_id)
  /\ "reported" \notin seen[call_id]
  /\ Becomes(add_synthesis_usage(Tracker, call_id, character_count, None, "live_synthesis"))
  /\ Noted(call_id, {"reported"} \cup
                    IF pc[call_id].transcript = "returned" /\ call_id \notin Registered
                    THEN {"usage_after_purge"} ELSE {})
  /\ UNCHANGED <<conversation_to_call_id, last, events_manager, pc, now, returned, in_progress>>

\* Some step of a task of the call.
StepOf(c) ==
  \/ StartDynamicOutboundCall(c)
  \/ \E request \in CallRequests : RegisterOutboundCall(c, request)
  \/ PhoneCallConnected(c)
  \/ \E result \in {"no_human"} : HumanDetection(c, result)
  \/ PhoneCallEnded(c)
  \/ TranscriptCompleteStore(c, FullTranscript)
  \/ TranscriptCompleteEvaluate(c)
  \/ \E tk \in Tokens, d \in CallDurations : TranscriptCompleteReport(c, tk[1], tk[2], d)
  \/ TranscriptCompleteCleanup(c)
  \/ \E n \in Characters : UsageReport(c, n)

LifecycleNext == \E c \in CallIds : StepOf(c)

LifecycleSpec == Init /\ [][LifecycleNext]_vars

\* ======================================================= billing a call
\* The tracker on its own, for one call: registration with providers and
\* models in several spellings, usage-adds that name a model, the passing of
\* time and finalize_call_cost.

\* Clock ticks of one second.
MaxTicks == 1

\* Usage-tracking requests recorded for the call.
MaxBilled == 2

BillingCall == "c1"

StartCallTracking(call_id, synthesis_provider, synthesis_model, llm_model) ==
  /\ call_id \notin Registered
  /\ Becomes(start_call_tracking(Tracker, call_id, "Deepgram", "nova-2", synthesis_provider,
                                 synthesis_model, "OpenAI", llm_model, now))
  /\ returned' = <<>>
  /\ UNCHANGED <<conversation_to_call_id, last, events_manager, pc, seen, now, in_progress>>

Tick ==
  /\ now < MaxTicks * 1000
  /\ now' = now + 1000
  /\ UNCHANGED <<call_metrics, call_costs, call_start_times, conversation_to_call_id,
                  history, last, events_manager, pc, seen, returned, in_progress>>

\* finalize_call_cost; its result is kept with its argument and with the
\* number of requests recorded for the call, next to the result before it.
FinalizeCallCost(call_id, call_duration_seconds) ==
  /\ call_id \in Registered
  /\ LET final == finalize_call_cost(Tracker, call_id, call_duration_seconds, now)
         entry == [call_id |-> call_id, argument |-> call_duration_seconds,
                   requests |-> Len(history[call_id]), result |-> final.result]
     IN /\ Becomes(final.tracker)
        /\ returned' = IF returned = <<>> THEN <<entry>>
                       ELSE <<returned[Len(returned)], entry>>
  /\ UNCHANGED <<conversation_to_call_id, last, events_manager, pc, seen, now, in_progress>>

Billable == Len(history[BillingCall]) < MaxBilled

BillingNext ==
  \/ \E tts \in TtsConfigs, llm_model \in {"gpt-4o-mini", "GPT-4o"} :
       StartCallTracking(BillingCall, tts[1], tts[2], llm_model)
  \/ Tick
  \/ \E call_duration_seconds \in {<<>>, <<61000>>} :
       FinalizeCallCost(BillingCall, call_duration_seconds)
  \/ /\ Billable
     /\ \E model \in {"Enhanced", "nova-3"} :
          AddTranscriptionUsage(BillingCall, 1234, model, "speech_to_text")
  \/ /\ Billable
     /\ \E n \in Characters, model \in {"Eleven_Flash_V2"} :
          AddSynthesisUsage(BillingCall, n, model, "text_to_speech")
  \/ /\ Billable
     /\ \E tk \in Tokens, model \in {None, "GPT-4o"} :
          AddLLMUsage(BillingCall, tk[1], tk[2], model, "agent_response")
  \/ /\ Billable
     /\ \E d \in CallDurations :
          AddTelephonyCost(BillingCall, d, "outbound_default", FALSE, NoCostData)

BillingSpec == Init /\ [][BillingNext]_vars

\* ================================================ the billing lookup
\* fetch_call_cost on its own, cut at its awaits: the request of an attempt
\* and the sleep between two attempts.

\* What the API holds about the call: a completed outbound call of 61 s,
\* billed 0.0085 $ once its price is available, and a call that was not
\* answered.
ApiCalls ==
  { [duration |-> 61, direction |-> "outbound-api", status |-> "completed",
     price |-> -5100000],
    [duration |-> 0, direction |-> "outbound-api", status |-> "no-answer", price |-> 0] }

\* What a step of the lookup leaves alone.
beyond_lookup ==
  <<call_metrics, call_costs, call_start_times, conversation_to_call_id, history, last,
    events_manager, pc, seen, now, returned, handling, worker, fetcher, entrypoint>>

FetchCallCost(configured, call_sid, call_data) ==
  /\ lookup.at = "idle"
  /\ lookup' = fetch_call_cost(configured, call_sid, call_data)
  /\ UNCHANGED beyond_lookup

\* The answer to the request of the attempt; the API prices completed calls.
Respond(response) ==
  /\ lookup.at = "requesting"
  /\ response = "priced" => lookup.call_data.status = "completed"
  /\ lookup' = on_response(lookup, response)
  /\ UNCHANGED beyond_lookup

Wake ==
  /\ lookup.at = "sleeping"
  /\ lookup' = after_sleep(lookup)
  /\ UNCHANGED beyond_lookup

FetchNext ==
  \/ \E configured \in BOOLEAN, call_sid \in { <<"C", "A", "1">>, <<>> }, call_data \in ApiCalls :
       FetchCallCost(configured, call_sid, call_data)
  \/ \E response \in {"priced", "unpriced", "malformed", "non_200", "timeout"} : Respond(response)
  \/ Wake

\* The event loop resumes the lookup after each answer and after each sleep,
\* and a request ends with an answer or with its timeout.
FetchSpec == Init /\ [][FetchNext]_vars /\ WF_vars(FetchNext)

\* ================================================= delivering the events
\* handle_event for the events of one call, with the webhook endpoint, the
\* tag classifier and the statements of the transcript handler failing:
\* the request handler as in the lifecycle, each simple event in one step
\* (its only await is the webhook), TRANSCRIPT_COMPLETE cut at its sleep and
\* at its billing lookup.
DeliveryCall == "c1"

World ==
  [events_manager |-> events_manager, tracker |-> Tracker,
   mapping |-> conversation_to_call_id, handling |-> handling]

BecomesWorld(w) ==
  /\ events_manager' = w.events_manager
  /\ Becomes(w.tracker)
  /\ conversation_to_call_id' = w.mapping
  /\ handling' = w.handling

\* What fetch_call_cost returns to the transcript handler: nothing, the
\* price of the API, the fallback estimate.
LookupResults ==
  { <<>>, <<_parse_call_data(CHOOSE call \in ApiCalls : call.status = "completed")>>,
    _calculate_fallback_cost(CHOOSE call \in ApiCalls : call.status = "completed") }

\* An event reaches handle_event once.
Delivered(conversation_id, event) ==
  /\ event \notin seen[conversation_id]
  /\ seen' = [seen EXCEPT ![conversation_id] = @ \cup {event}]

DeliverPhoneCallConnected(conversation_id, outcome) ==
  /\ Talking(conversation_id)
  /\ Delivered(conversation_id, "connected")
  /\ BecomesWorld(handle_event(
       on_phone_call_connected(World, conversation_id, StartTime, outcome)))
  /\ UNCHANGED <<last, pc, now, returned, lookup, fetcher, entrypoint, worker>>

DeliverHumanDetection(conversation_id, detection_result, outcome) ==
  /\ Talking(conversation_id)
  /\ Delivered(conversation_id, "detection")
  /\ BecomesWorld(handle_event(
       on_human_detection(World, conversation_id, detection_result, outcome)))
  /\ UNCHANGED <<last, pc, now, returned, lookup, fetcher, entrypoint, worker>>

DeliverPhoneCallEnded(conversation_id, outcome) ==
  /\ Terminated(conversation_id)
  /\ Delivered(conversation_id, "ended")
  /\ BecomesWorld(handle_event(on_phone_call_ended(World, conversation_id, outcome)))
  /\ UNCHANGED <<last, pc, now, returned, lookup, fetcher, entrypoint, worker>>

\* An event that no branch of handle_event takes.
DeliverOtherEvent(conversation_id) ==
  /\ Placed(conversation_id)
  /\ Delivered(conversation_id, "other")
  /\ BecomesWorld(handle_event(Done(World)))
  /\ UNCHANGED <<last, pc, now, returned, lookup, fetcher, entrypoint, worker>>

\* TRANSCRIPT_COMPLETE from the end of the sleep to the billing lookup; an
\* exception ends the handler in handle_event.
DeliverTranscriptEvaluate(conversation_id, classification, input_tokens, output_tokens, call_duration, stage_raises) ==
  /\ pc[conversation_id].transcript = "sleeping"
  /\ LET handled == on_transcript_evaluate(World, conversation_id,
                                           HasTags(conversation_id), classification,
                                           input_tokens, output_tokens, call_duration,
                                           stage_raises)
     IN /\ BecomesWorld(handle_event(handled))
        /\ At(conversation_id, "transcript",
              IF handled.raised THEN "returned" ELSE "sending")
  /\ UNCHANGED <<last, seen, now, returned, lookup, fetcher, entrypoint, worker>>

\* TRANSCRIPT_COMPLETE from the result of the billing lookup to the return
\* of the handler; the lookup is made for a call whose data are stored with
\* credentials and both phone numbers.
DeliverTranscriptComplete(conversation_id, twilio_call_cost_data, outcome) ==
  /\ pc[conversation_id].transcript = "sending"
  /\ \/ twilio_call_cost_data = <<>>
     \/ /\ conversation_id \in DOMAIN events_manager.call_phone_numbers
        /\ events_manager.call_phone_numbers[conversation_id].twilio_account_sid # ""
        /\ events_manager.call_phone_numbers[conversation_id].twilio_auth_token # ""
        /\ events_manager.call_phone_numbers[conversation_id].from_phone # ""
        /\ events_manager.call_phone_numbers[conversation_id].to_phone # ""
  /\ BecomesWorld(handle_event(
       on_transcript_deliver(World, conversation_id, twilio_call_cost_data, outcome)))
  /\ At(conversation_id, "transcript", "returned")
  /\ UNCHANGED <<last, seen, now, returned, lookup, fetcher, entrypoint, worker>>

\* The call is placed by one of the two servers: by the request handler
\* of the orchestrator, or through the LiveKit worker.
DispatchOutboundCall(conversation_id) ==
  /\ worker.at = "connected"
  /\ StartDynamicOutboundCall(conversation_id)

\* handle_disconnect up to the PHONE_CALL_ENDED webhook.
WorkerCallEnded(conversation_id, recording_url, outcome) ==
  /\ pc[conversation_id].api = "idle"
  /\ worker.at = "connected"
  /\ worker' = [send_webhook(worker, [type |-> "PHONE_CALL_ENDED",
                                      recording_url |-> recording_url,
                                      analysis |-> NoAnalysis], outcome)
                  EXCEPT !.at = "ended"]
  /\ UNCHANGED <<call_metrics, call_costs, call_start_times, conversation_to_call_id,
                  history, last, events_manager, pc, seen, now, returned, lookup, fetcher, entrypoint, handling>>

\* handle_disconnect from there to the answer of the tag analysis.
WorkerAnalyzeTags(has_tags, answer) ==
  /\ worker.at = "ended"
  /\ worker' = [worker EXCEPT
                  !.at = "analyzed",
                  !.classifier = IF has_tags THEN answer.kind ELSE "no_tags",
                  !.analysis = IF has_tags THEN analyze_tags_with_llm(answer)
                               ELSE NoAnalysis]
  /\ UNCHANGED <<call_metrics, call_costs, call_start_times, conversation_to_call_id,
                  history, last, events_manager, pc, seen, now, returned, lookup, fetcher, entrypoint, handling>>

\* handle_disconnect from there to its end: the cost and the
\* TRANSCRIPT_COMPLETE webhook.
WorkerTranscriptComplete(outcome) ==
  /\ worker.at = "analyzed"
  /\ worker' = [send_webhook(worker, [type |-> "TRANSCRIPT_COMPLETE", recording_url |-> <<>>,
                                      analysis |-> worker.analysis], outcome)
                  EXCEPT !.at = "done"]
  /\ UNCHANGED <<call_metrics, call_costs, call_start_times, conversation_to_call_id,
                  history, last, events_manager, pc, seen, now, returned, lookup, fetcher, entrypoint, handling>>

\* The classifier of the orchestrator gives an answer that names the tag as
\* found, an answer that cannot be read, or fails: no API key, a failed
\* request, a response without a message.  The classifier of the worker
\* gives a JSON object, a text that is not JSON, an empty content or a
\* failed request.  The recording of the worker has a URL or none.
DeliveryNext ==
  \/ DispatchOutboundCall(DeliveryCall)
  \/ \E request \in CallRequests : RegisterOutboundCall(DeliveryCall, request)
  \/ \E outcome \in WebhookOutcomes : DeliverPhoneCallConnected(DeliveryCall, outcome)
  \/ \E result \in {"no_human"}, outcome \in WebhookOutcomes :
       DeliverHumanDetection(DeliveryCall, result, outcome)
  \/ \E outcome \in WebhookOutcomes : DeliverPhoneCallEnded(DeliveryCall, outcome)
  \/ DeliverOtherEvent(DeliveryCall)
  \/ TranscriptCompleteStore(DeliveryCall, FullTranscript)
  \/ \E classification \in
          { [kind |-> "answer",
             text |-> <<"u", "s", "e", "r", "_", "t", "a", "g", ":", "i", ":", " ",
                        "T", "r", "u", "e", "\n">>],
            [kind |-> "answer", text |-> <<"n", "o", "n", "e">>],
            [kind |-> "missing_key", text |-> <<>>],
            [kind |-> "api_error", text |-> <<>>],
            [kind |-> "malformed_response", text |-> <<>>] },
        tk \in Tokens, d \in CallDurations, stage_raises \in BOOLEAN :
       DeliverTranscriptEvaluate(DeliveryCall, classification, tk[1], tk[2], d, stage_raises)
  \/ \E twilio_call_cost_data \in LookupResults, outcome \in WebhookOutcomes :
       DeliverTranscriptComplete(DeliveryCall, twilio_call_cost_data, outcome)
  \/ \E recording_url \in {<<>>, <<"url">>}, outcome \in WebhookOutcomes :
       WorkerCallEnded(DeliveryCall, recording_url, outcome)
  \/ \E has_tags \in BOOLEAN,
        answer \in
          { [kind |-> "json",
             result |-> [user_tags_found |-> {"interested"}, system_tags_found |-> {},
                         callback_requested |-> TRUE,
                         callback_time |-> <<"2025-11-05T14:30:00Z">>]],
            [kind |-> "not_json", result |-> NoAnalysis],
            [kind |-> "empty_content", result |-> NoAnalysis],
            [kind |-> "api_error", result |-> NoAnalysis] } :
       WorkerAnalyzeTags(has_tags, answer)
  \/ \E outcome \in WebhookOutcomes : WorkerTranscriptComplete(outcome)

DeliverySpec == Init /\ [][DeliveryNext]_vars

\* The event loop resumes a handler that it suspended: once the transcript
\* handler of the call has begun, its remaining parts are run.  Nothing
\* makes the telephony side deliver an event.
ResumedDeliverySpec ==
  /\ DeliverySpec
  /\ WF_vars(\E classification \in {[kind |-> "answer", text |-> <<"n", "o", "n", "e">>]},
               tk \in Tokens, d \in CallDurations, stage_raises \in BOOLEAN :
               DeliverTranscriptEvaluate(DeliveryCall, classification, tk[1], tk[2], d,
                                         stage_raises))
  /\ WF_vars(\E twilio_call_cost_data \in LookupResults, outcome \in WebhookOutcomes :
               DeliverTranscriptComplete(DeliveryCall, twilio_call_cost_data, outcome))

\* ============================================ the credentials of a call
\* Two calls placed with Twilio credentials of their requests, and the
\* billing part of _handle_transcript_complete for each, cut at its awaits.
\* api_start_outbound_call: the fetcher is configured with the credentials of
\* the request, and they are stored with the phone numbers of the call.
StartCallWithCredentials(conversation_id, twilio_account_sid, twilio_auth_token) ==
  /\ pc[conversation_id].api = "idle"
  /\ fetcher' = configure_credentials(fetcher, twilio_account_sid, twilio_auth_token)
  /\ events_manager' = [events_manager EXCEPT !.call_phone_numbers =
                          Put(@, conversation_id,
                              [from_phone |-> "from", to_phone |-> "to",
                               call_start_time |-> StartTime,
                               twilio_account_sid |-> twilio_account_sid,
                               twilio_auth_token |-> twilio_auth_token])]
  /\ At(conversation_id, "api", "returned")
  /\ UNCHANGED <<call_metrics, call_costs, call_start_times, conversation_to_call_id,
                  history, last, seen, now, returned, lookup, handling, worker,
                  entrypoint>>

\* The handler from the stored call data to the request of
\* find_call_sid_by_phone_numbers.
BillingFindCallSid(conversation_id) ==
  /\ pc[conversation_id] = [api |-> "returned", transcript |-> "none"]
  /\ LET call_data == events_manager.call_phone_numbers[conversation_id]
     IN fetcher' = session_get(configure_credentials(fetcher, call_data.twilio_account_sid,
                                                     call_data.twilio_auth_token),
                               conversation_id, "Calls.json")
  /\ At(conversation_id, "transcript", "finding")
  /\ UNCHANGED <<call_metrics, call_costs, call_start_times, conversation_to_call_id,
                  history, last, events_manager, seen, now, returned, lookup, handling, worker,
                  entrypoint>>

\* From the answer of find_call_sid_by_phone_numbers to the request of
\* fetch_recording_urls; without a call SID the handler asks no more.
BillingFetchRecordingUrls(conversation_id, actual_call_sid) ==
  /\ pc[conversation_id].transcript = "finding"
  /\ IF actual_call_sid # <<>>
     THEN /\ fetcher' = session_get(fetcher, conversation_id, "Recordings.json")
          /\ At(conversation_id, "transcript", "recordings")
     ELSE /\ At(conversation_id, "transcript", "billed")
          /\ UNCHANGED fetcher
  /\ UNCHANGED <<call_metrics, call_costs, call_start_times, conversation_to_call_id,
                  history, last, events_manager, seen, now, returned, lookup, handling, worker,
                  entrypoint>>

\* From the answer of fetch_recording_urls to the request of fetch_call_cost.
BillingFetchCallCost(conversation_id) ==
  /\ pc[conversation_id].transcript = "recordings"
  /\ fetcher' = session_get(fetcher, conversation_id, "Calls")
  /\ At(conversation_id, "transcript", "billed")
  /\ UNCHANGED <<call_metrics, call_costs, call_start_times, conversation_to_call_id,
                  history, last, events_manager, seen, now, returned, lookup, handling, worker,
                  entrypoint>>

CredentialsNext ==
  \E c \in CallIds :
    \/ \E credentials \in {<<"AC1", "token1">>, <<"AC2", "token2">>} :
         StartCallWithCredentials(c, credentials[1], credentials[2])
    \/ BillingFindCallSid(c)
    \/ \E actual_call_sid \in {<<>>, <<"C", "A", "1">>} :
         BillingFetchRecordingUrls(c, actual_call_sid)
    \/ BillingFetchCallCost(c)

CredentialsSpec == Init /\ [][CredentialsNext]_vars

\* ============================================== the voicemail of a call
\* The calls from their requests to the end of the phone call, with the
\* transcript analysed for voicemail after the sleep of
\* _handle_transcript_complete; returned holds the outcome fields of the last
\* PHONE_CALL_ENDED payload.
\* _handle_transcript_complete from the end of its sleep to the webhook of
\* the voicemail (or, without voicemail, to the next await).
VoicemailAnalysis(conversation_id) ==
  /\ pc[conversation_id].transcript = "sleeping"
  /\ LET full_transcript == events_manager.call_transcripts[conversation_id]
         call_outcome == IF conversation_id \in DOMAIN events_manager.call_outcomes
                         THEN events_manager.call_outcomes[conversation_id]
                         ELSE [is_voicemail |-> FALSE, human_detection_result |-> ""]
     IN events_manager' =
          IF _detect_voicemail_from_transcript(full_transcript)
          THEN [events_manager EXCEPT !.call_outcomes =
                  Put(@, conversation_id,
                      [call_outcome EXCEPT
                         !.is_voicemail = TRUE,
                         !.human_detection_result = "voicemail_detected_from_transcript"])]
          ELSE events_manager
  /\ At(conversation_id, "transcript", "analysed")
  /\ UNCHANGED <<call_metrics, call_costs, call_start_times, conversation_to_call_id,
                  history, last, seen, now, returned, in_progress>>

\* _handle_phone_call_ended up to its webhook: the duration from the stored
\* start time (zero when none is stored), the outcome, the payload.
PhoneCallEndedPayload(conversation_id, event, call_end_time) ==
  /\ Terminated(conversation_id)
  /\ "ended" \notin seen[conversation_id]
  /\ LET call_start_time ==
           IF conversation_id \in DOMAIN events_manager.call_start_times
           THEN events_manager.call_start_times[conversation_id]
           ELSE call_end_time
         call_duration == (call_end_time - call_start_time) \div 1000
         call_outcome == _analyze_call_outcome(events_manager, conversation_id, event,
                                               call_duration)
     IN returned' = <<[kind |-> "ended", conversation_id |-> conversation_id,
                       call_duration_seconds |-> call_duration,
                       is_voicemail |-> call_outcome.is_voicemail,
                       is_rejected |-> call_outcome.is_rejected,
                       call_outcome |-> call_outcome.outcome,
                       end_reason |-> call_outcome.end_reason]>>
  /\ Noted(conversation_id, {"ended"})
  /\ UNCHANGED <<call_metrics, call_costs, call_start_times, conversation_to_call_id,
                  history, last, events_manager, pc, now, in_progress>>

\* The transcripts: "BOT: hi\nHUMAN: ok" and
\* "BOT: hi\nHUMAN: leave a message".
VoicemailNext ==
  \E c \in CallIds :
    \/ StartDynamicOutboundCall(c)
    \/ \E request \in CallRequests : RegisterOutboundCall(c, request)
    \/ PhoneCallConnected(c)
    \/ \E full_transcript \in
            { FullTranscript,
              <<"B", "O", "T", ":", " ", "h", "i", "\n", "H", "U", "M", "A", "N", ":", " ">> \o
              <<"l", "e", "a", "v", "e", " ", "a", " ", "m", "e", "s", "s", "a", "g", "e">> } :
         TranscriptCompleteStore(c, full_transcript)
    \/ VoicemailAnalysis(c)
    \/ \E end_reason \in {<<>>, <<"c", "o", "m", "p", "l", "e", "t", "e", "d">>},
          call_end_time \in {StartTime + 8000, StartTime + 90000} :
         PhoneCallEndedPayload(c, [end_reason |-> end_reason, status |-> <<>>,
                                   call_status |-> <<>>],
                               call_end_time)

VoicemailSpec == Init /\ [][VoicemailNext]_vars

\* ============================================== the answer of a call
\* entrypoint of the LiveKit worker from the participant that joined to the
\* start of the assistant.  elapsed counts the sleeps of half a second;
\* status and in_room are the sip.callStatus attribute of the participant
\* and its presence in the room, was_active whether the status has been
\* "active"; sent are the payloads handed to the webhook sender.
max_wait_seconds == 120

\* ctx.wait_for_participant() returns: a SIP participant is waited for, for
\* any other the worker sleeps two seconds.
WaitForParticipant(kind, webhook_url, status) ==
  /\ entrypoint.at = "connecting"
  /\ entrypoint' = [entrypoint EXCEPT
                      !.at = IF kind = "sip" THEN "waiting" ELSE "stabilizing",
                      !.kind = kind, !.webhook_url = webhook_url,
                      !.status = status, !.in_room = TRUE,
                      !.was_active = status = "active"]
  /\ UNCHANGED <<call_metrics, call_costs, call_start_times, conversation_to_call_id,
                  history, last, events_manager, pc, seen, now, returned, lookup, handling,
                  worker, fetcher>>

\* While the worker sleeps the SIP leg changes its status or the
\* participant leaves the room.
SipLegChanges(status, in_room) ==
  /\ entrypoint.at \in {"waiting", "buffering"}
  /\ entrypoint.in_room \/ ~in_room
  /\ status # entrypoint.status \/ in_room # entrypoint.in_room
  /\ entrypoint' = [entrypoint EXCEPT
                      !.status = status, !.in_room = in_room,
                      !.was_active = @ \/ status = "active"]
  /\ UNCHANGED <<call_metrics, call_costs, call_start_times, conversation_to_call_id,
                  history, last, events_manager, pc, seen, now, returned, lookup, handling,
                  worker, fetcher>>

\* One round of the wait for the answer, to its sleep or, when the wait
\* ends, to the next await: the sleep of three seconds of an answered call,
\* or the PHONE_CALL_ENDED webhook of a call that was not answered.
\* Variant: a call that is still ringing after the maximal wait is taken
\* for answered.
AnswerWait_until_timeout ==
  /\ entrypoint.at = "waiting"
  /\ LET not_connected ==
           [entrypoint EXCEPT
              !.at = "shutdown",
              !.sent = IF entrypoint.webhook_url
                       THEN Append(@, [type |-> "PHONE_CALL_ENDED", is_voicemail |-> FALSE,
                                       is_rejected |-> TRUE,
                                       call_outcome |-> "not_answered"])
                       ELSE @]
     IN entrypoint' =
          IF entrypoint.elapsed >= 2 * max_wait_seconds \/ entrypoint.status = "active"
          THEN [entrypoint EXCEPT !.at = "buffering"]
          ELSE IF entrypoint.status \in {"disconnected", "hangup", "failed", "error",
                                         "automation"}
          THEN not_connected
          ELSE IF ~entrypoint.in_room THEN not_connected
          ELSE [entrypoint EXCEPT !.elapsed = @ + 1]
  /\ UNCHANGED <<call_metrics, call_costs, call_start_times, conversation_to_call_id,
                  history, last, events_manager, pc, seen, now, returned, lookup, handling,
                  worker, fetcher>>

AnswerWait ==
  /\ entrypoint.at = "waiting"
  /\ LET not_connected ==
           [entrypoint EXCEPT
              !.at = "shutdown",
              !.sent = IF entrypoint.webhook_url
                       THEN Append(@, [type |-> "PHONE_CALL_ENDED", is_voicemail |-> FALSE,
                                       is_rejected |-> TRUE,
                                       call_outcome |-> "not_answered"])
                       ELSE @]
     IN entrypoint' =
          IF entrypoint.elapsed >= 2 * max_wait_seconds THEN not_connected
          ELSE IF entrypoint.status = "active"
          THEN [entrypoint EXCEPT !.at = "buffering"]
          ELSE IF entrypoint.status \in {"disconnected", "hangup", "failed", "error",
                                         "automation"}
          THEN not_connected
          ELSE IF ~entrypoint.in_room THEN not_connected
          ELSE [entrypoint EXCEPT !.elapsed = @ + 1]
  /\ UNCHANGED <<call_metrics, call_costs, call_start_times, conversation_to_call_id,
                  history, last, events_manager, pc, seen, now, returned, lookup, handling,
                  worker, fetcher>>

\* After the sleep that follows the answer (or the join of a participant
\* that is no SIP leg): the PHONE_CALL_CONNECTED webhook, when a webhook URL
\* is configured.
SendCallConnected ==
  /\ entrypoint.at \in {"buffering", "stabilizing"}
  /\ entrypoint' = [entrypoint EXCEPT
                      !.at = "started",
                      !.sent = IF entrypoint.webhook_url
                               THEN Append(@, [type |-> "PHONE_CALL_CONNECTED"])
                               ELSE @]
  /\ UNCHANGED <<call_metrics, call_costs, call_start_times, conversation_to_call_id,
                  history, last, events_manager, pc, seen, now, returned, lookup, handling,
                  worker, fetcher>>

AnswerNext ==
  \/ \E kind \in {"sip", "standard"}, webhook_url \in BOOLEAN,
        status \in {"dialing", "active"} :
       WaitForParticipant(kind, webhook_url, status)
  \/ \E status \in {"dialing", "ringing", "active", "hangup", "failed"},
        in_room \in BOOLEAN :
       SipLegChanges(status, in_room)
  \/ AnswerWait
  \/ SendCallConnected

AnswerSpec == Init /\ [][AnswerNext]_vars

\* ================================================ classifying a call
\* _detect_voicemail_from_transcript and _analyze_call_outcome applied to
\* transcripts and to ended calls; returned holds the argument and the
\* result of the last application.
\*   Transcripts: "", "HUMAN: hello", "Please Leave a Message",
\*   "record at the tone", "he is not available",
\*   "not available, not available", "not available, please leave us",
\*   "is not available at this time", "please try your call again",
\*   "Not Available, leave a message".
\*   Events: end_reason absent, "completed", "Hangup", "no-answer",
\*   "user-busy", "Canceled" or "error"; status absent or "busy"; call_status
\*   absent, "busy" or "in-progress".
DetectVoicemail(transcript) ==
  /\ returned' = <<[kind |-> "voicemail", transcript |-> transcript,
                    is_voicemail |-> _detect_voicemail_from_transcript(transcript)]>>
  /\ UNCHANGED <<call_metrics, call_costs, call_start_times, conversation_to_call_id,
                  history, last, events_manager, pc, seen, now, in_progress>>

AnalyzeCallOutcome(conversation_id, event, duration_seconds) ==
  /\ returned' = <<[kind |-> "outcome", event |-> event,
                    duration_seconds |-> duration_seconds,
                    call_outcome |-> _analyze_call_outcome(events_manager, conversation_id,
                                                           event, duration_seconds)]>>
  /\ UNCHANGED <<call_metrics, call_costs, call_start_times, conversation_to_call_id,
                  history, last, events_manager, pc, seen, now, in_progress>>

OutcomeNext ==
  \/ \E transcript \in
          {
            <<>>,
            <<"H", "U", "M", "A", "N", ":", " ", "h", "e", "l", "l", "o">>,
            <<"P", "l", "e", "a", "s", "e", " ", "L", "e", "a", "v", "e", " ", "a", " ",
              "M", "e", "s", "s", "a", "g", "e">>,
            <<"r", "e", "c", "o", "r", "d", " ", "a", "t", " ", "t", "h", "e", " ", "t",
              "o", "n", "e">>,
            <<"h", "e", " ", "i", "s", " ", "n", "o", "t", " ", "a", "v", "a", "i", "l",
              "a", "b", "l", "e">>,
            <<"n", "o", "t", " ", "a", "v", "a", "i", "l", "a", "b", "l", "e", ",", " ",
              "n", "o", "t", " ", "a", "v", "a", "i", "l", "a", "b", "l", "e">>,
            <<"n", "o", "t", " ", "a", "v", "a", "i", "l", "a", "b", "l", "e", ",", " ",
              "p", "l", "e", "a", "s", "e", " ", "l", "e", "a", "v", "e", " ", "u", "s">>,
            <<"i", "s", " ", "n", "o", "t", " ", "a", "v", "a", "i", "l", "a", "b", "l",
              "e", " ", "a", "t", " ", "t", "h", "i", "s", " ", "t", "i", "m", "e">>,
            <<"p", "l", "e", "a", "s", "e", " ", "t", "r", "y", " ", "y", "o", "u", "r",
              " ", "c", "a", "l", "l", " ", "a", "g", "a", "i", "n">>,
            <<"N", "o", "t", " ", "A", "v", "a", "i", "l", "a", "b", "l", "e", ",", " ",
              "l", "e", "a", "v", "e", " ", "a", " ", "m", "e", "s", "s", "a", "g", "e">> } :
       DetectVoicemail(transcript)
  \/ \E end_reason \in
          {
            <<>>,
            <<"c", "o", "m", "p", "l", "e", "t", "e", "d">>,
            <<"H", "a", "n", "g", "u", "p">>,
            <<"n", "o", "-", "a", "n", "s", "w", "e", "r">>,
            <<"u", "s", "e", "r", "-", "b", "u", "s", "y">>,
            <<"C", "a", "n", "c", "e", "l", "e", "d">>,
            <<"e", "r", "r", "o", "r">> },
        status \in {<<>>, <<"b", "u", "s", "y">>},
        call_status \in {<<>>, <<"b", "u", "s", "y">>, <<"i", "n", "-", "p", "r", "o", "g", "r", "e", "s", "s">>},
        duration_seconds \in {0, 8, 9, 10, 15, 19, 20, 60, 61, 90} :
       AnalyzeCallOutcome(BillingCall,
                          [end_reason |-> end_reason, status |-> status,
                           call_status |-> call_status],
                          duration_seconds)

OutcomeSpec == Init /\ [][OutcomeNext]_vars

\* ============================================================== properties
MeteredServices == {"transcription", "synthesis"}

EstimateTag(service) ==
  IF service = "transcription" THEN "speech_recognition_from_transcript"
  ELSE "agent_responses_from_transcript"

LiveTag(service) ==
  IF service = "transcription" THEN "live_transcription" ELSE "live_synthesis"

\* The requests recorded for call_id since its registration are exactly two
\* usage-adds of the service, tagged first and second.
TwoAdds(call_id, service, first, second) ==
  /\ call_id \in Registered
  /\ Len(history[call_id]) = 2
  /\ history[call_id][1].service = service /\ history[call_id][1].context = first
  /\ history[call_id][2].service = service /\ history[call_id][2].context = second

RECURSIVE SumAmounts(_)
SumAmounts(details) ==
  IF details = <<>> THEN 0 ELSE Head(details).amount + SumAmounts(Tail(details))

\* C1: for every registered call, after every tracker mutation, total_cost is
\* the sum of transcription_cost, synthesis_cost, llm_cost and telephony_cost.
C1_TotalCostIsSum ==
  \A c \in DOMAIN call_costs :
    call_costs[c].total_cost =
      call_costs[c].transcription_cost + call_costs[c].synthesis_cost
      + call_costs[c].llm_cost + call_costs[c].telephony_cost

\* A call that has been charged for transcription, the LLM and telephony.
C1_Witness ==
  \E c \in DOMAIN call_costs :
    /\ call_costs[c].transcription_cost > 0
    /\ call_costs[c].llm_cost > 0
    /\ call_costs[c].telephony_cost > 0

\* C2: on a service without prior usage, an estimate of x followed by an
\* estimate of y leaves the accumulated usage x + y.
C2_EstimateThenEstimate ==
  \A c \in CallIds, s \in MeteredServices :
    TwoAdds(c, s, EstimateTag(s), EstimateTag(s)) =>
      call_metrics[c][s].total_usage = history[c][1].amount + history[c][2].amount

\* C3: on a service without prior usage, a live report of x followed by an
\* estimate of y leaves the accumulated usage x; the estimate changes neither
\* the usage nor the cost of the call.
C3_LiveThenEstimate ==
  [][\A c \in CallIds, s \in MeteredServices :
       ( /\ c \in Registered
         /\ Len(history[c]) = 1
         /\ history[c][1].service = s /\ history[c][1].context = LiveTag(s)
         /\ Len(history'[c]) = 2
         /\ history'[c][2].service = s /\ history'[c][2].context = EstimateTag(s) )
       => /\ call_metrics'[c] = call_metrics[c]
          /\ call_costs'[c] = call_costs[c]
          /\ call_metrics'[c][s].total_usage = history[c][1].amount]_vars

C3_Witness ==
  \E c \in CallIds, s \in MeteredServices : TwoAdds(c, s, LiveTag(s), EstimateTag(s))

\* C4: on a service without prior usage, an estimate of x followed by a live
\* report of y leaves the accumulated usage y, with the live event the only
\* one recorded.
C4_EstimateThenLive ==
  \A c \in CallIds, s \in MeteredServices :
    TwoAdds(c, s, EstimateTag(s), LiveTag(s)) =>
      /\ call_metrics[c][s].total_usage = history[c][2].amount
      /\ call_metrics[c][s].usage_count = 1
      /\ Len(call_metrics[c][s].usage_details) = 1
      /\ call_metrics[c][s].usage_details[1].context = LiveTag(s)

C4_Witness ==
  \E c \in CallIds, s \in MeteredServices : TwoAdds(c, s, EstimateTag(s), LiveTag(s))

\* C5: on a service without prior usage, a live report of x followed by a
\* live report of y leaves the accumulated usage x + y.
C5_LiveThenLive ==
  \A c \in CallIds, s \in MeteredServices :
    TwoAdds(c, s, LiveTag(s), LiveTag(s)) =>
      call_metrics[c][s].total_usage = history[c][1].amount + history[c][2].amount

\* C6: a live report discards recorded usage of its service only when every
\* recorded event is tagged as a transcript estimate; when a recorded event
\* is live, the recorded events stay.
C6_ResetOnlyEstimates ==
  [][\A c \in CallIds, s \in MeteredServices :
       ( /\ c \in Registered
         /\ Len(history'[c]) = Len(history[c]) + 1
         /\ history'[c][Len(history'[c])].service = s
         /\ history'[c][Len(history'[c])].context = LiveTag(s) )
       => LET before == call_metrics[c][s].usage_details
              after == call_metrics'[c][s].usage_details
              kept == /\ Len(after) = Len(before) + 1
                      /\ SubSeq(after, 1, Len(before)) = before
          IN /\ ~kept => \A i \in DOMAIN before : before[i].context = EstimateTag(s)
             /\ (\E i \in DOMAIN before : before[i].context = LiveTag(s)) => kept]_vars

\* C7: the usage recorded for a service comes from one source: its events are
\* all transcript estimates or none of them is.
C7_OneSource ==
  \A c \in Registered, s \in MeteredServices :
    LET details == call_metrics[c][s].usage_details
    IN ~ ( /\ \E i \in DOMAIN details : details[i].context = EstimateTag(s)
           /\ \E i \in DOMAIN details : details[i].context # EstimateTag(s) )

\* C8 as stated: usage_count is the number of entries of usage_details and
\* total_usage is the sum of the amounts recorded in usage_details.
C8_TotalIsSumOfRecorded ==
  \A c \in Registered, s \in MeteredServices :
    /\ call_metrics[c][s].usage_count = Len(call_metrics[c][s].usage_details)
    /\ call_metrics[c][s].total_usage = SumAmounts(call_metrics[c][s].usage_details)

\* C8 as amended: usage_count is the number of entries of usage_details; the
\* synthesis total_usage is the sum of the recorded character counts; the
\* transcription total_usage is the sum of the reported durations, which
\* usage_details records rounded to two decimals, so that it is within
\* 0.005 s per event of the sum of the recorded amounts.
C8_TotalIsSumOfReported ==
  \A c \in Registered :
    LET transcription == call_metrics[c].transcription
        synthesis == call_metrics[c].synthesis
        gap == transcription.total_usage - SumAmounts(transcription.usage_details)
    IN /\ transcription.usage_count = Len(transcription.usage_details)
       /\ synthesis.usage_count = Len(synthesis.usage_details)
       /\ synthesis.total_usage = SumAmounts(synthesis.usage_details)
       /\ gap <= 5 * transcription.usage_count
       /\ -gap <= 5 * transcription.usage_count

\* A call whose transcription estimate was replaced by a live report that is
\* recorded rounded, next to a recorded synthesis event.
C8_Witness ==
  \E c \in Registered :
    /\ Len(history[c]) = 3
    /\ history[c][1].service = "transcription"
    /\ history[c][1].context = "speech_recognition_from_transcript"
    /\ call_metrics[c].transcription.usage_count = 1
    /\ call_metrics[c].transcription.usage_details[1].context = "live_transcription"
    /\ call_metrics[c].transcription.usage_details[1].amount
         # call_metrics[c].transcription.total_usage
    /\ call_metrics[c].synthesis.usage_count = 1

\* C9: total_tokens is input_tokens + output_tokens at all times, also after
\* an add_llm_usage that the dedup check dropped.
C9_TotalTokens ==
  \A c \in Registered :
    call_metrics[c].llm.total_tokens =
      call_metrics[c].llm.input_tokens + call_metrics[c].llm.output_tokens

\* A call with recorded LLM usage and one more LLM request than recorded.
C9_Witness ==
  \E c \in Registered :
    /\ call_metrics[c].llm.requests_count > 0
    /\ call_metrics[c].llm.output_tokens > 0
    /\ Len(SelectSeq(history[c], LAMBDA r : r.service = "llm"))
         > call_metrics[c].llm.requests_count

\* Some usage-tracking call of the tracker is made for call_id.
UsageTrackingCall(call_id) ==
  \/ \E d \in Durations, ctx \in {"speech_to_text", "live_transcription", "speech_recognition_from_transcript"} :
       AddTranscriptionUsage(call_id, d, None, ctx)
  \/ \E n \in Characters, ctx \in {"text_to_speech", "live_synthesis", "agent_responses_from_transcript"} : AddSynthesisUsage(call_id, n, None, ctx)
  \/ \E tk \in Tokens, ctx \in {"agent_response", "live_agent_response", "agent_conversation"} : AddLLMUsage(call_id, tk[1], tk[2], None, ctx)
  \/ \E d \in CallDurations, tel \in {<<FALSE, NoCostData>>, <<TRUE, [data_source |-> "twilio_api", cost_usd |-> 5100000, duration_minutes |-> 1]>>} :
       AddTelephonyCost(call_id, d, "outbound_default", tel[1], tel[2])
  \/ \E d \in CallDurations : UpdateCallMetadata(call_id, d, FullTranscript)
  \/ \E d \in Durations, tr \in Transcripts : EstimateUsageFromTranscript(call_id, tr, d)

\* C10: a usage-tracking call for a call id that is not registered creates no
\* entry for it and changes the state of no call.
C10_UnregisteredIsNoOp ==
  [][\A c \in CallIds :
       (c \notin Registered /\ UsageTrackingCall(c))
       => UNCHANGED <<call_metrics, call_costs, call_start_times, in_progress>>]_vars

\* The last usage-tracking call was made for a call id that was not
\* registered, while another call had costs on record.
C10_Witness ==
  /\ last.call_id \in CallIds
  /\ ~last.registered
  /\ last.call_id \notin Registered
  /\ \E c \in Registered : call_costs[c].total_cost > 0

\* C11: cleanup_call removes the entries of the call id from every map of the
\* tracker, and a usage-add made for the id afterwards, while it is not
\* registered again, changes nothing and recreates no entry.
C11_CleanupRemovesAll ==
  [][\A c \in CallIds :
       /\ TranscriptCompleteCleanup(c) =>
            /\ c \notin DOMAIN call_metrics'
            /\ c \notin DOMAIN call_costs'
            /\ c \notin DOMAIN call_start_times'
       /\ ( /\ pc[c].transcript = "returned"
            /\ c \notin Registered
            /\ \E n \in Characters : UsageReport(c, n) )
          => /\ UNCHANGED <<call_metrics, call_costs, call_start_times, in_progress>>
             /\ c \notin DOMAIN call_metrics' \cup DOMAIN call_costs'
                          \cup DOMAIN call_start_times']_vars

\* A call that was registered when its transcript arrived, was cleaned up,
\* and had a usage report made for it after that.
C11_Witness ==
  \E c \in CallIds :
    /\ pc[c].api = "returned"
    /\ pc[c].transcript = "returned"
    /\ "event_before_registration" \notin seen[c]
    /\ "usage_after_purge" \in seen[c]
    /\ c \notin Registered

\* Some per-call map of the tracker, of the usage hook or of the events
\* manager holds an entry for the call id.
HoldsEntry(c) ==
  \/ c \in DOMAIN call_metrics \cup DOMAIN call_costs \cup DOMAIN call_start_times
  \/ c \in DOMAIN conversation_to_call_id
  \/ \E map \in (DOMAIN CustomEventsManager) : c \in DOMAIN events_manager[map]

\* C12: when the handler of TRANSCRIPT_COMPLETE returns, having sent the
\* webhook of the call, no per-call map of any component holds an entry for
\* the call id.
C12_AllPurged ==
  [][\A c \in CallIds : TranscriptCompleteCleanup(c) => ~HoldsEntry(c)']_vars

\* C13: the operations of a call come in the order register, mutations,
\* serialize, purge: no lifecycle event of a call is processed before the
\* tracking state of the call is registered, and none after its purge.
C13_RegisterFirstPurgeLast ==
  \A c \in CallIds :
    /\ "event_before_registration" \notin seen[c]
    /\ "event_after_purge" \notin seen[c]

\* C14: tracking state that exists for a call id is not replaced by a second
\* registration of the id: the request handler registers an id that has no
\* tracking state, and the state that its first start_call_tracking creates
\* is the state of the call when the handler returns.
C14_NoSecondRegistration ==
  [][\A c \in CallIds, tts \in TtsConfigs :
       ApiStartOutboundCall(c, tts[1], tts[2]) =>
         /\ c \notin Registered
         /\ call_metrics'[c] =
              start_call_tracking(Tracker, c, "deepgram", "nova-2", tts[1], "default",
                                  "openai", "gpt-4o-mini", StartTime).call_metrics[c]]_vars

\* dict.get(key), as a sequence: empty when the key is absent
Entry(dict, key) == IF key \in DOMAIN dict THEN <<dict[key]>> ELSE <<>>

\* What the per-call maps of the tracker, of the usage hook and of the events
\* manager hold for a call id.
PerCallState(d) ==
  [call_metrics |-> Entry(call_metrics, d),
   call_costs |-> Entry(call_costs, d),
   call_start_times |-> Entry(call_start_times, d),
   conversation_to_call_id |-> Entry(conversation_to_call_id, d),
   events_manager |-> [map \in (DOMAIN CustomEventsManager) |-> Entry(events_manager[map], d)]]

\* C15: a step of a task of one call (registration, usage report, estimate,
\* cleanup, configuration storage, event handling) leaves what every per-call
\* map holds for every other call id unchanged, under any interleaving.
C15_DisjointState ==
  [][\A c \in CallIds :
       StepOf(c) => \A d \in CallIds \ {c} : PerCallState(d)' = PerCallState(d)]_vars

\* One call has been registered and purged while the handler of the
\* transcript of another call, which has tags and costs on record, is
\* suspended.
C15_Witness ==
  \E c \in CallIds, d \in CallIds :
    /\ c # d
    /\ pc[c].api = "returned" /\ pc[c].transcript = "returned" /\ c \notin Registered
    /\ pc[d].transcript = "sending"
    /\ d \in Registered /\ call_costs[d].total_cost > 0
    /\ d \in DOMAIN events_manager.call_tags
    /\ d \in DOMAIN conversation_to_call_id

\* C16: the updates of a tracker mutation are made without a suspension point
\* between them, so that at every point where the task of another call can
\* run, the usage that a call has been charged for carries its cost, the
\* token counters of the metrics and of the cost breakdown agree, and
\* total_cost is the sum of its components.
C16_NoHalfUpdate ==
  \A c \in Registered :
    LET metrics == call_metrics[c]
        cost_breakdown == call_costs[c]
        gpt == pricing_rates["openai"]["gpt-4o-mini"]
    IN /\ cost_breakdown.total_cost =
            cost_breakdown.transcription_cost + cost_breakdown.synthesis_cost
            + cost_breakdown.llm_cost + cost_breakdown.telephony_cost
       /\ cost_breakdown.llm_input_tokens = metrics.llm.input_tokens
       /\ cost_breakdown.llm_output_tokens = metrics.llm.output_tokens
       /\ cost_breakdown.llm_cost =
            metrics.llm.input_tokens * gpt.input + metrics.llm.output_tokens * gpt.output
       /\ cost_breakdown.transcription_cost =
            cost_breakdown.transcription_seconds * pricing_rates["deepgram"]["nova-2"]
       /\ cost_breakdown.synthesis_cost =
            cost_breakdown.synthesis_characters
            * ServiceRate(Lower(metrics.synthesis.provider), metrics.synthesis.model)
       /\ cost_breakdown.transcription_seconds >= metrics.transcription.total_usage
       /\ cost_breakdown.synthesis_characters >= metrics.synthesis.total_usage
       /\ (metrics.transcription.usage_count > 0) = (cost_breakdown.transcription_seconds > 0)
       /\ (metrics.synthesis.usage_count > 0) = (cost_breakdown.synthesis_characters > 0)
       /\ (metrics.llm.requests_count > 0) = (cost_breakdown.llm_cost > 0)

\* The handler of one call is suspended after charging the call for the tag
\* evaluation and for the estimates, while the handler of another call,
\* charged for a usage report, is suspended as well.
C16_Witness ==
  \E c \in Registered, d \in Registered :
    /\ c # d
    /\ pc[c].transcript = "sending"
    /\ call_costs[c].llm_cost > 0
    /\ call_costs[c].transcription_cost > 0
    /\ pc[d].transcript = "sleeping"
    /\ call_costs[d].synthesis_cost > 0

\* finalize_call_cost was called twice in succession for the call, with the
\* same argument and with no usage-tracking request between the two calls.
TwiceInSuccession ==
  /\ Len(returned) = 2
  /\ returned[1].call_id = returned[2].call_id
  /\ returned[1].argument = returned[2].argument
  /\ returned[1].requests = returned[2].requests

\* C17 as stated: two calls of finalize_call_cost in succession, with no
\* usage-add between them, return identical breakdowns.
C17_FinalizeTwiceIdentical ==
  TwiceInSuccession => returned[1].result = returned[2].result

\* C17 as amended: the two results agree in every cost, in the providers and
\* in the usage; call_duration_seconds agrees when a duration is passed (it
\* is the time elapsed since registration otherwise), and cost_calculated_at
\* is the time of each call.
C17_FinalizeTwiceSameCosts ==
  TwiceInSuccession =>
    LET first == returned[1].result
        second == returned[2].result
    IN /\ first.cost_breakdown = second.cost_breakdown
       /\ first.providers = second.providers
       /\ [first.usage_metrics EXCEPT !.call_duration_seconds = 0]
            = [second.usage_metrics EXCEPT !.call_duration_seconds = 0]
       /\ returned[1].argument # <<>> =>
            /\ first.usage_metrics = second.usage_metrics
            /\ first.call_metadata.call_duration_seconds
                 = second.call_metadata.call_duration_seconds

\* Two calls in succession with a duration, at different times, for a call
\* with costs on record.
C17_Witness ==
  /\ TwiceInSuccession
  /\ returned[1].argument # <<>>
  /\ returned[1].result.cost_breakdown.total_cost > 0
  /\ returned[1].result.call_metadata.cost_calculated_at
       # returned[2].result.call_metadata.cost_calculated_at

\* C18: a service whose provider is not in the rate table costs 0, in the
\* running CostBreakdown of the call and in the cost breakdown that is
\* reported at the end of the call.
C18_UnknownProviderFree ==
  \A c \in Registered :
    Lower(call_metrics[c].synthesis.provider) \notin DOMAIN pricing_rates =>
      /\ call_costs[c].synthesis_cost = 0
      /\ get_comprehensive_cost_breakdown(Tracker, c).synthesis_cost_usd = 0

\* The rate of a provider and model, both matched in lower case: the rate of
\* the model when it is listed, the "default" rate of the provider when it
\* is not (for the LLM table, which has no "default" entry, the rates of its
\* default model), and 0 for a provider that is not in the table.
ListedRate(provider, model) ==
  IF Lower(provider) \notin DOMAIN pricing_rates THEN 0
  ELSE LET provider_rates == pricing_rates[Lower(provider)]
       IN IF Lower(model) \in DOMAIN provider_rates THEN provider_rates[Lower(model)]
          ELSE IF "default" \in DOMAIN provider_rates THEN provider_rates["default"]
          ELSE provider_rates["gpt-4o-mini"]

\* C19: a usage-add raises the cost of its service by the amount times the
\* rate of the provider and of the model, both matched case-insensitively,
\* with the default rate of the provider when the model is not listed.
C19_AmountTimesListedRate ==
  [][(BillingCall \in Registered) =>
       (LET metrics == call_metrics[BillingCall]
            before == call_costs[BillingCall]
            after == call_costs'[BillingCall]
        IN /\ \A model \in {"Enhanced", "nova-3"} :
                AddTranscriptionUsage(BillingCall, 1234, model, "speech_to_text") =>
                  after.transcription_cost - before.transcription_cost
                    = 1234 * ListedRate(metrics.transcription.provider, model)
           /\ \A n \in Characters, model \in {"Eleven_Flash_V2"} :
                AddSynthesisUsage(BillingCall, n, model, "text_to_speech") =>
                  after.synthesis_cost - before.synthesis_cost
                    = n * ListedRate(metrics.synthesis.provider, model)
           /\ \A tk \in Tokens, model \in {None, "GPT-4o"} :
                AddLLMUsage(BillingCall, tk[1], tk[2], model, "agent_response") =>
                  LET rates == ListedRate(metrics.llm.provider,
                                          OrElse(model, metrics.llm.model, "gpt-4o-mini"))
                  IN after.llm_cost - before.llm_cost
                       = tk[1] * rates.input + tk[2] * rates.output)]_vars

\* math.ceil(ms / 60000): the duration in whole minutes, rounded up.
WholeMinutes(ms) == (ms + 59999) \div 60000

\* C20: without a billing record of the provider, the telephony cost of a
\* call is its duration rounded up to whole minutes times the flat rate of
\* the call type (two minutes for a call of 61 seconds).
C20_WholeMinutesBilled ==
  [][\A d \in CallDurations :
       ( /\ BillingCall \in Registered
         /\ AddTelephonyCost(BillingCall, d, "outbound_default", FALSE, NoCostData) )
       => call_costs'[BillingCall].telephony_cost
            = WholeMinutes(d) * 60000 * pricing_rates["twilio"]["outbound_default"]]_vars

\* C21: estimate_usage_from_transcript with duration d, for a registered call
\* without a recorded transcription event, leaves the transcription usage of
\* the call at d.
C21_TranscriptionIsCallDuration ==
  [][\A c \in CallIds, d \in Durations, tr \in Transcripts :
       ( /\ c \in Registered
         /\ call_metrics[c].transcription.usage_count = 0
         /\ EstimateUsageFromTranscript(c, tr, d) )
       => /\ call_metrics'[c].transcription.total_usage = d
          /\ call_metrics'[c].transcription.usage_count = 1]_vars

\* The first two requests recorded for a call are the estimates that
\* estimate_usage_from_transcript made from a call of 1.234 s and the
\* transcript "BOT: hi\nHUMAN: ok".
C21_Witness ==
  \E c \in Registered :
    /\ Len(history[c]) = 2
    /\ history[c][1] = Request("transcription", 1234, "speech_recognition_from_transcript")
    /\ history[c][2] = Request("synthesis", 2, "agent_responses_from_transcript")
    /\ call_metrics[c].transcription.total_usage = 1234

\* The lines of the transcript that start with "BOT:", without the prefix
\* and without the whitespace around the rest.
AgentLines(transcript_text) ==
  LET lines == SplitLines(transcript_text)
      bot_lines == SelectSeq(lines, LAMBDA line : StartsWith(line, <<"B", "O", "T", ":">>))
  IN [i \in DOMAIN bot_lines |-> Strip(SubSeq(bot_lines[i], 5, Len(bot_lines[i])))]

RECURSIVE TotalLength(_)
TotalLength(parts) ==
  IF parts = <<>> THEN 0 ELSE Len(Head(parts)) + TotalLength(Tail(parts))

\* C22 as stated: for a registered call without a recorded synthesis event,
\* the synthesis usage becomes the number of characters of the "BOT:" lines
\* of the transcript, prefix stripped, and of nothing else.
C22_SynthesisIsAgentCharacters ==
  [][\A c \in CallIds, d \in Durations, tr \in Transcripts :
       ( /\ c \in Registered
         /\ call_metrics[c].synthesis.usage_count = 0
         /\ EstimateUsageFromTranscript(c, tr, d) )
       => call_metrics'[c].synthesis.total_usage = TotalLength(AgentLines(tr))]_vars

\* C22 as amended: the synthesis usage becomes the number of characters of
\* the "BOT:" lines, prefix and surrounding whitespace stripped, plus one
\* separating space between each line and the next.
C22_SynthesisIsJoinedAgentText ==
  [][\A c \in CallIds, d \in Durations, tr \in Transcripts :
       ( /\ c \in Registered
         /\ call_metrics[c].synthesis.usage_count = 0
         /\ EstimateUsageFromTranscript(c, tr, d) )
       => LET agent_lines == AgentLines(tr)
              separators == IF agent_lines = <<>> THEN 0 ELSE Len(agent_lines) - 1
          IN call_metrics'[c].synthesis.total_usage
               = TotalLength(agent_lines) + separators]_vars

\* The synthesis estimate made from the transcript "BOT: a \nBOT:b", whose
\* two agent lines hold one character each, is on record with 3 characters.
C22_Witness ==
  \E c \in Registered :
    /\ Len(history[c]) = 2
    /\ history[c][1].context = "speech_recognition_from_transcript"
    /\ history[c][2] = Request("synthesis", 3, "agent_responses_from_transcript")
    /\ call_metrics[c].synthesis.total_usage = 3
    /\ call_metrics[c].synthesis.usage_count = 1

\* C23: between the registration of a call and its purge, no tracker
\* operation lowers transcription_cost, synthesis_cost, llm_cost,
\* telephony_cost or total_cost of the call.
C23_CostsNeverDecrease ==
  [][\A c \in CallIds :
       ( /\ c \in DOMAIN call_costs
         /\ c \in DOMAIN call_costs'
         /\ ~ \E tts \in TtsConfigs : ApiStartOutboundCall(c, tts[1], tts[2]) )
       => /\ call_costs'[c].transcription_cost >= call_costs[c].transcription_cost
          /\ call_costs'[c].synthesis_cost >= call_costs[c].synthesis_cost
          /\ call_costs'[c].llm_cost >= call_costs[c].llm_cost
          /\ call_costs'[c].telephony_cost >= call_costs[c].telephony_cost
          /\ call_costs'[c].total_cost >= call_costs[c].total_cost]_vars

\* C24: a billing lookup ends, whatever the API answers, after at most
\* max_retries (10) requests, with a delay of retry_delay (2 s) between one
\* attempt and the next and none after the last.
C24_LookupEndsWithinAttempts ==
  /\ [](/\ lookup.requests <= max_retries
        /\ lookup.slept <= retry_delay * (max_retries - 1)
        /\ lookup.at \in {"sleeping", "returned"} =>
             lookup.slept = retry_delay * (lookup.requests - 1) \/ lookup.requests = 0
        /\ lookup.at = "requesting" => lookup.slept = retry_delay * lookup.requests)
  /\ <>(lookup.at = "returned")

\* A lookup that ended with its tenth request, after nine delays.
C24_Witness ==
  /\ lookup.at = "returned"
  /\ lookup.requests = max_retries
  /\ lookup.slept = retry_delay * (max_retries - 1)
  /\ lookup.errors > 0
  /\ lookup.errors < max_retries

\* C25: an error of the API on an attempt that is not the last one (an
\* exception of the request, a status other than 200, a body that is not
\* JSON) does not end the lookup: it goes on to its next attempt.
C25_ErrorsAreRetried ==
  [][\A response \in {"timeout", "non_200", "malformed"} :
       (Respond(response) /\ lookup.attempt < max_retries - 1)
       => lookup'.at = "sleeping"]_vars

\* C26: a lookup for a completed call that ends without a price of the API
\* ends with an estimated cost record, never without a cost.
C26_FallbackWhenNoPrice ==
  ( /\ lookup.at = "returned"
    /\ lookup.requests > 0
    /\ lookup.call_data.status = "completed" /\ lookup.call_data.duration > 0
    /\ \A i \in DOMAIN lookup.result : lookup.result[i].data_source # "twilio_api" )
  => /\ lookup.result # <<>>
     /\ lookup.result[1].data_source = "calculated_fallback"

\* --- the webhooks and the failures of the handlers
ClassifierFailed ==
  handling.classifier \in {"missing_key", "api_error", "malformed_response", "unparsable"}

PostsOf(index) == {j \in DOMAIN handling.posts : handling.posts[j].payload = index}

\* C27: every payload handed to _send_webhook is the body of at most one
\* POST request (of exactly one, the webhook URL being configured), whatever
\* the endpoint answered; a request that failed is not made again.  The same
\* holds for send_webhook of the LiveKit worker.
C27_OnePostPerPayload ==
  /\ \A i \in DOMAIN handling.payloads : Cardinality(PostsOf(i)) = 1
  /\ \A j \in DOMAIN handling.posts : handling.posts[j].payload \in DOMAIN handling.payloads
  /\ \A i \in DOMAIN worker.payloads :
       Cardinality({j \in DOMAIN worker.posts : worker.posts[j].payload = i}) = 1
  /\ \A j \in DOMAIN worker.posts : worker.posts[j].payload \in DOMAIN worker.payloads

\* The TRANSCRIPT_COMPLETE webhook of the call timed out and its handler
\* has returned.
C27_Witness ==
  /\ pc[DeliveryCall].transcript = "returned"
  /\ \E j \in DOMAIN handling.posts :
       /\ handling.posts[j].outcome = "timeout"
       /\ handling.payloads[handling.posts[j].payload].type = "TRANSCRIPT_COMPLETE"
  /\ \E j \in DOMAIN handling.posts : handling.posts[j].outcome = "refused"

\* The per-call state that a handler leaves: the maps of the events
\* manager, the tracker and the usage hook mapping.
StateLeft(w) ==
  [events_manager |-> w.events_manager, call_metrics |-> w.tracker.call_metrics,
   call_costs |-> w.tracker.call_costs, call_start_times |-> w.tracker.call_start_times,
   mapping |-> w.mapping]

Purged(state, conversation_id) ==
  /\ conversation_id \notin DOMAIN state.events_manager.call_tags
  /\ conversation_id \notin DOMAIN state.events_manager.call_transcripts
  /\ conversation_id \notin DOMAIN state.events_manager.call_sids
  /\ conversation_id \notin DOMAIN state.call_metrics
  /\ conversation_id \notin DOMAIN state.call_costs
  /\ conversation_id \notin DOMAIN state.call_start_times
  /\ conversation_id \notin DOMAIN state.mapping

\* C28: whatever becomes of the POST request of a webhook, the handler
\* leaves the per-call state that it leaves when the endpoint answers 200;
\* for TRANSCRIPT_COMPLETE this state is the purged one.
C28_WebhookOutcomeLeavesState ==
  \A outcome \in WebhookOutcomes :
    /\ StateLeft(handle_event(on_phone_call_connected(World, DeliveryCall, StartTime, outcome)))
         = StateLeft(handle_event(on_phone_call_connected(World, DeliveryCall, StartTime, "ok")))
    /\ \A result \in {"no_human"} :
         StateLeft(handle_event(on_human_detection(World, DeliveryCall, result, outcome)))
           = StateLeft(handle_event(on_human_detection(World, DeliveryCall, result, "ok")))
    /\ StateLeft(handle_event(on_phone_call_ended(World, DeliveryCall, outcome)))
         = StateLeft(World)
    /\ pc[DeliveryCall].transcript = "sending" =>
         \A cost_data \in LookupResults :
           LET left == StateLeft(handle_event(
                         on_transcript_deliver(World, DeliveryCall, cost_data, outcome)))
           IN /\ left = StateLeft(handle_event(
                          on_transcript_deliver(World, DeliveryCall, cost_data, "ok")))
              /\ Purged(left, DeliveryCall)

\* The TRANSCRIPT_COMPLETE webhook of a registered call timed out, the
\* handler has returned and the state of the call is purged.
C28_Witness ==
  /\ pc[DeliveryCall].api = "returned"
  /\ pc[DeliveryCall].transcript = "returned"
  /\ handling.posts # <<>>
  /\ handling.posts[Len(handling.posts)].outcome = "timeout"
  /\ handling.payloads[Len(handling.payloads)].type = "TRANSCRIPT_COMPLETE"
  /\ "connected" \in seen[DeliveryCall]
  /\ Purged(StateLeft(World), DeliveryCall)

\* C29: no exception leaves handle_event, for any event and any failure
\* inside a handler; what a handler raises is caught.
C29_HandleEventReturns ==
  /\ ~handling.unwound
  /\ handling.stage_failed => handling.caught >= 1
  /\ ClassifierFailed /\ ~handling.stage_failed => handling.caught = 0

\* A statement of the transcript handler raised; handle_event caught the
\* exception and the events after it were handled.
C29_Witness ==
  /\ handling.stage_failed
  /\ handling.caught = 1
  /\ pc[DeliveryCall].transcript = "returned"
  /\ {"ended", "other"} \subseteq seen[DeliveryCall]

WorkerClassifierFailed == worker.classifier \in {"not_json", "empty_content", "api_error"}

\* C30: when the classifier fails (no API key, a failed request, a response
\* without a message, an answer that cannot be read) no tag is detected,
\* nothing is raised, and the handler goes on: once it has returned, a
\* TRANSCRIPT_COMPLETE payload without tags has been assembled and posted.
\* In the LiveKit worker a failed analysis gives no tags and no callback,
\* and the TRANSCRIPT_COMPLETE payload is posted with them.
C30_ClassifierFailureMeansNoTags ==
  /\ ClassifierFailed =>
       /\ handling.detected_tags = {}
       /\ ~handling.stage_failed => handling.caught = 0
       /\ pc[DeliveryCall].transcript = "returned" /\ ~handling.stage_failed =>
            \E i \in DOMAIN handling.payloads :
              /\ handling.payloads[i].type = "TRANSCRIPT_COMPLETE"
              /\ handling.payloads[i].tags_found = {}
              /\ PostsOf(i) # {}
  /\ WorkerClassifierFailed =>
       /\ worker.analysis = NoAnalysis
       /\ worker.at = "done" =>
            \E j \in DOMAIN worker.posts :
              /\ worker.payloads[worker.posts[j].payload].type = "TRANSCRIPT_COMPLETE"
              /\ worker.payloads[worker.posts[j].payload].analysis = NoAnalysis

\* The request of the classifier failed for a call with a tag to evaluate
\* and the TRANSCRIPT_COMPLETE webhook was sent.
C30_Witness ==
  /\ handling.classifier = "api_error"
  /\ pc[DeliveryCall].transcript = "returned"
  /\ \E i \in DOMAIN handling.payloads :
       /\ handling.payloads[i].type = "TRANSCRIPT_COMPLETE"
       /\ handling.payloads[i].tags_found = {}

\* --- the classification of a call
Classified(kind) == returned # <<>> /\ returned[1].kind = kind

\* The strong indicators that occur in the transcripts of the model, in the
\* spelling of the transcript.
HasStrongIndicator(transcript) ==
  \/ Contains(transcript, <<"L", "e", "a", "v", "e", " ", "a", " ", "M", "e", "s", "s", "a", "g", "e">>)
  \/ Contains(transcript, <<"l", "e", "a", "v", "e", " ", "a", " ", "m", "e", "s", "s", "a", "g", "e">>)
  \/ Contains(transcript, <<"a", "t", " ", "t", "h", "e", " ", "t", "o", "n", "e">>)

\* C31: a transcript that holds a strong voicemail indicator is classified
\* as voicemail, whatever weak indicators it holds.
C31_StrongIndicatorIsVoicemail ==
  Classified("voicemail") /\ HasStrongIndicator(returned[1].transcript)
    => returned[1].is_voicemail

\* A transcript with a strong indicator and no weak one was classified.
C31_Witness ==
  /\ Classified("voicemail")
  /\ returned[1].transcript = <<"r", "e", "c", "o", "r", "d", " ", "a", "t", " ", "t", "h", "e", " ", "t", "o", "n", "e">>
  /\ returned[1].is_voicemail

\* The weak indicators that a transcript of the model holds.
WeakIndicators(transcript) ==
  {phrase \in {<<"n", "o", "t", " ", "a", "v", "a", "i", "l", "a", "b", "l", "e">>,
               <<"p", "l", "e", "a", "s", "e", " ", "l", "e", "a", "v", "e">>,
               <<"i", "s", " ", "n", "o", "t", " ", "a", "v", "a", "i", "l", "a", "b", "l", "e", " ", "a", "t", " ", "t", "h", "i", "s", " ", "t", "i", "m", "e">>,
               <<"p", "l", "e", "a", "s", "e", " ", "t", "r", "y", " ", "y", "o", "u", "r", " ", "c", "a", "l", "l", " ", "a", "g", "a", "i", "n">>} :
     Contains(LowerText(transcript), phrase)}

\* C32: a transcript without a strong indicator is classified as voicemail
\* exactly when it holds two or more different weak indicators; with one
\* weak indicator, also when it occurs twice, it is not.
C32_TwoWeakIndicators ==
  Classified("voicemail") /\ ~HasStrongIndicator(returned[1].transcript)
    => (returned[1].is_voicemail <=>
          Cardinality(WeakIndicators(returned[1].transcript)) >= 2)

\* A transcript with two different weak indicators and no strong one was
\* classified as voicemail.
C32_Witness ==
  /\ Classified("voicemail")
  /\ returned[1].transcript = <<"n", "o", "t", " ", "a", "v", "a", "i", "l", "a", "b", "l", "e", ",", " ", "p", "l", "e", "a", "s", "e", " ", "l", "e", "a", "v", "e", " ", "u", "s">>
  /\ returned[1].is_voicemail

\* The end reason that _analyze_call_outcome takes from the event, in lower
\* case.
EndReason(event) ==
  LowerText(IF event.end_reason # <<>> THEN event.end_reason
            ELSE IF event.status # <<>> THEN event.status
            ELSE <<"u", "n", "k", "n", "o", "w", "n">>)

\* The end reasons of the model that match the vocabulary of rejections.
MatchesVocabulary(end_reason) ==
  end_reason \in {<<"n", "o", "-", "a", "n", "s", "w", "e", "r">>, <<"u", "s", "e", "r", "-", "b", "u", "s", "y">>,
                  <<"c", "a", "n", "c", "e", "l", "e", "d">>, <<"b", "u", "s", "y">>}

RejectedByRule(event, duration_seconds) ==
  \/ MatchesVocabulary(EndReason(event))
  \/ /\ duration_seconds < 10
     /\ EndReason(event) \notin {<<"c", "o", "m", "p", "l", "e", "t", "e", "d">>, <<"h", "a", "n", "g", "u", "p">>}
  \/ /\ duration_seconds < 20
     /\ EndReason(event) \in {<<"b", "u", "s", "y">>, <<"f", "a", "i", "l", "e", "d">>, <<"c", "a", "n", "c", "e", "l", "e", "d">>}

\* C33 as stated: a call is rejected exactly when its end reason matches
\* the vocabulary, or it lasted less than 10 s and its end reason is neither
\* "completed" nor "hangup", or it lasted less than 20 s and its end reason
\* is busy, failed or canceled.
C33_RejectedByReasonOrDuration ==
  Classified("outcome") =>
    (returned[1].call_outcome.is_rejected
       <=> RejectedByRule(returned[1].event, returned[1].duration_seconds))

\* C33: a call is rejected exactly when the rule above applies or a status
\* attribute of its event is busy, no-answer, failed, canceled or declined.
C33_RejectedByReasonStatusOrDuration ==
  Classified("outcome") =>
    (returned[1].call_outcome.is_rejected
       <=> \/ RejectedByRule(returned[1].event, returned[1].duration_seconds)
           \/ returned[1].event.status = <<"b", "u", "s", "y">>
           \/ returned[1].event.call_status = <<"b", "u", "s", "y">>)

\* A call of 8 s that was not answered is rejected, and so is a completed
\* call of 90 s whose event has the call status busy.
C33_Witness ==
  /\ Classified("outcome")
  /\ returned[1].call_outcome.is_rejected
  /\ \/ /\ returned[1].duration_seconds = 8
        /\ returned[1].event.end_reason = <<"n", "o", "-", "a", "n", "s", "w", "e", "r">>
     \/ /\ returned[1].duration_seconds = 90
        /\ returned[1].event.end_reason = <<"c", "o", "m", "p", "l", "e", "t", "e", "d">>
        /\ returned[1].event.call_status = <<"b", "u", "s", "y">>

\* --- live reports through the usage hook
\* The usage recorded for the service of call_id so far is one transcript
\* estimate.
OnlyEstimated(call_id, service) ==
  /\ call_id \in Registered
  /\ Len(call_metrics[call_id][service].usage_details) = 1
  /\ call_metrics[call_id][service].usage_details[1].context = EstimateTag(service)

\* C34: a live report through the usage hook is recorded with its live tag,
\* and after a transcript estimate of the same service it replaces the
\* estimate: the accumulated usage is the reported amount alone.
C34_HookReportSupersedesEstimate ==
  [][\A c \in CallIds :
       /\ \A d \in Durations :
            (OnlyEstimated(c, "transcription") /\ TrackTranscriptionFromVocode(c, d))
              => /\ call_metrics'[c].transcription.total_usage = d
                 /\ \A i \in DOMAIN call_metrics'[c].transcription.usage_details :
                      call_metrics'[c].transcription.usage_details[i].context
                        = "live_transcription"
       /\ \A n \in Characters :
            (OnlyEstimated(c, "synthesis") /\ TrackSynthesisFromVocode(c, n))
              => /\ call_metrics'[c].synthesis.total_usage = n
                 /\ \A i \in DOMAIN call_metrics'[c].synthesis.usage_details :
                      call_metrics'[c].synthesis.usage_details[i].context
                        = "live_synthesis"]_vars

\* --- the two accounts of a call's costs
\* C37: for every call with tracking data and every service, the cost that
\* get_comprehensive_cost_breakdown reports is the cost that the usage-adds
\* accumulated in the call's CostBreakdown, rounded as the report is.
C37_ReportedIsAccumulatedCost ==
  \A c \in DOMAIN call_metrics \cap DOMAIN call_costs :
    LET reported == get_comprehensive_cost_breakdown(Tracker, c)
    IN /\ reported.transcription_cost_usd = Round6(call_costs[c].transcription_cost)
       /\ reported.synthesis_cost_usd = Round6(call_costs[c].synthesis_cost)
       /\ reported.llm_cost_usd = Round6(call_costs[c].llm_cost)

\* C38: for every call with tracking data, the usage mirrors of its
\* CostBreakdown equal the usage accumulated in its CallMetrics.
C38_MirrorsEqualUsage ==
  \A c \in DOMAIN call_metrics \cap DOMAIN call_costs :
    /\ call_costs[c].transcription_seconds = call_metrics[c].transcription.total_usage
    /\ call_costs[c].synthesis_characters = call_metrics[c].synthesis.total_usage
    /\ call_costs[c].llm_input_tokens = call_metrics[c].llm.input_tokens
    /\ call_costs[c].llm_output_tokens = call_metrics[c].llm.output_tokens

\* --- the credentials of the requests
\* C35: every request that the TRANSCRIPT_COMPLETE handler of a call makes
\* to Twilio carries the credentials stored for that call.
C35_RequestsUseStoredCredentials ==
  \A i \in DOMAIN fetcher.requests :
    LET request == fetcher.requests[i]
        call_data == events_manager.call_phone_numbers[request.conversation_id]
    IN /\ request.account_sid = call_data.twilio_account_sid
       /\ request.auth_token = call_data.twilio_auth_token
       /\ request.base_url = call_data.twilio_account_sid

\* --- the voicemail in the payload of the ended call
\* C39: when the transcript of a call is one that the analysis takes for
\* voicemail, the PHONE_CALL_ENDED payload of the call says so, whether the
\* end of the phone call is handled before or after the analysis.
C39_EndedPayloadReflectsVoicemail ==
  ( /\ Classified("ended")
    /\ returned[1].conversation_id \in DOMAIN events_manager.call_transcripts
    /\ _detect_voicemail_from_transcript(
         events_manager.call_transcripts[returned[1].conversation_id]) )
  => /\ returned[1].is_voicemail
     /\ returned[1].call_outcome = "voicemail"

\* --- the purge of a registered call
\* C36: a call that has been registered is eventually purged from the
\* per-call maps, whatever becomes of its events and of their handlers.
C36_RegisteredEventuallyPurged ==
  [](pc[DeliveryCall].api = "returned" => <>Purged(StateLeft(World), DeliveryCall))

\* --- the answer of a call in the LiveKit worker
Sent(type) == \E i \in DOMAIN entrypoint.sent : entrypoint.sent[i].type = type

SentRejected ==
  \E i \in DOMAIN entrypoint.sent :
    /\ entrypoint.sent[i].type = "PHONE_CALL_ENDED"
    /\ entrypoint.sent[i].is_rejected

====
